---- MODULE Spec2Model ----
(***************************************************************************)
(* City Bus Manager (text edition): the company state of game.py and the   *)
(* commands of its main menu, with the running boards of                   *)
(* running_boards.py.                                                      *)
(*                                                                         *)
(* Units.  Python floats are held as exact fixed-point integers:           *)
(*   money, earnings, costs   pence            (2500000.0 is 250000000)    *)
(*   reputation               half points      (50.0 is 100, +0.5 is 1)    *)
(*   fuel_price               1/1000 pound     (1.60 is 1600)              *)
(*   fuel level, capacity     millilitres      (160.0 is 160000)           *)
(*   fuel_efficiency          1/100 litre/km   (0.25 is 25)                *)
(* The inputs drawn below (travel times that are multiples of 8 minutes,   *)
(* price moves that are multiples of 0.05, efficiency 0.25) make every     *)
(* product a whole number of these units, so no division rounds.           *)
(*                                                                         *)
(* Python's None is the empty tuple and a present value v is <<v>>.        *)
(***************************************************************************)
EXTENDS Integers, Sequences, FiniteSets, TLC

VARIABLES
    company_name,        \* ManagerState.company_name
    routes,              \* ManagerState.routes: sequence of Route
    fleet,               \* ManagerState.fleet: sequence of Bus
    money,               \* ManagerState.money (pence)
    reputation,          \* ManagerState.reputation (half points)
    day,                 \* ManagerState.day
    next_bus_id,         \* ManagerState.next_bus_id
    use_running_boards,  \* ManagerState.use_running_boards
    fuel_price,          \* ManagerState.fuel_price (1/1000 pound)
    boards_folder,       \* the running_boards/ folder: file name -> saved board
    routes_created,      \* history: number of routes created so far
    days_run,            \* history: number of days simulated so far
    summary              \* what the last run_day_simulation call reported

vars == <<company_name, routes, fleet, money, reputation, day, next_bus_id,
          use_running_boards, fuel_price, boards_folder, routes_created,
          days_run, summary>>

state_vars == <<company_name, routes, fleet, money, reputation, day, next_bus_id,
                use_running_boards, fuel_price>>

-----------------------------------------------------------------------------
(* Bounds of the model *)

MaxFleet == 2          \* buses bought
MaxRoutes == 2         \* routes created
MaxDay == 1            \* days simulated: a run is followed to the end of the last

-----------------------------------------------------------------------------
(* Python values *)

None == <<>>
Some(v) == <<v>>

Max(a, b) == IF a >= b THEN a ELSE b
Min(a, b) == IF a <= b THEN a ELSE b

RECURSIVE SumSeq(_)
SumSeq(s) == IF s = <<>> THEN 0 ELSE Head(s) + SumSeq(Tail(s))

Digit == <<"0", "1", "2", "3", "4", "5", "6", "7", "8", "9">>

\* str(n) for n >= 0
RECURSIVE str(_)
str(n) == IF n < 10 THEN Digit[n + 1] ELSE str(n \div 10) \o Digit[(n % 10) + 1]

-----------------------------------------------------------------------------
(* Domain entities *)

Stop(name, minutes) == [name |-> name, minutes_from_prev |-> minutes]

Route(name, stops, base, current) ==
    [name |-> name, stops |-> stops, base_schedule_minutes |-> base,
     current_schedule_minutes |-> current, assigned_bus_id |-> None]

Bus(bus_id, model, capacity, fuel_capacity, fuel_level, fuel_efficiency, purchase_price, fleet_number, dlc_source) ==
    [bus_id |-> bus_id, model |-> model, capacity |-> capacity,
     fuel_capacity |-> fuel_capacity, fuel_level |-> fuel_level,
     fuel_efficiency |-> fuel_efficiency, assigned_route |-> None,
     health |-> 100, purchase_price |-> purchase_price,
     fleet_number |-> fleet_number, dlc_source |-> dlc_source,
     livery |-> "Standard"]

\* sum(stop.minutes_from_prev for stop in route.stops[1:])
total_time(stops) ==
    SumSeq([i \in 1..(Len(stops) - 1) |-> stops[i + 1].minutes_from_prev])

\* fuel used by Bus.consume_fuel(minutes, speed), in millilitres:
\* (minutes / 60) * speed * fuel_efficiency * (speed / 50) litres
fuel_used(bus, minutes, speed) ==
    (minutes * speed * speed * bus.fuel_efficiency) \div 300

\* Bus.consume_fuel without max(..., 0)
consume_fuel_no_floor(bus, minutes, speed) ==
    [bus EXCEPT !.fuel_level = bus.fuel_level - fuel_used(bus, minutes, speed)]

\* Bus.consume_fuel on a bus that is refuelled overnight
consume_fuel_refuelled(bus, minutes, speed) ==
    [bus EXCEPT !.fuel_level = bus.fuel_capacity]

\* the bus after Bus.consume_fuel
consume_fuel(bus, minutes, speed) ==
    [bus EXCEPT !.fuel_level = Max(bus.fuel_level - fuel_used(bus, minutes, speed), 0)]

\* next((i for b in fleet if b.bus_id == bus_id), None) as an index, 0 when absent;
\* bus_id is an optional value
RECURSIVE FindFrom(_, _, _)
FindFrom(fl, bus_id, i) ==
    IF i > Len(fl) THEN 0
    ELSE IF Some(fl[i].bus_id) = bus_id THEN i
    ELSE FindFrom(fl, bus_id, i + 1)

find_bus(fl, bus_id) == FindFrom(fl, bus_id, 1)

\* next((r for r in routes if r.name == name), None) as an index, 0 when absent
RECURSIVE FindRouteFrom(_, _, _)
FindRouteFrom(rs, name, i) ==
    IF i > Len(rs) THEN 0
    ELSE IF rs[i].name = name THEN i
    ELSE FindRouteFrom(rs, name, i + 1)

find_route(rs, name) == FindRouteFrom(rs, name, 1)

-----------------------------------------------------------------------------
(* Running board files (running_boards.py) *)

\* the running board names typed in this model, in Python's string order
BoardNames == <<"B#2", "B1">>

\* "".join(c if c.isalnum() or c in (' ', '_', '-') else '_' for c in name)
safe_name(name) == IF name = "B#2" THEN "B_2" ELSE name

FileNames == {safe_name(BoardNames[i]) : i \in DOMAIN BoardNames}

Trip(route_name, destination, departure_time) ==
    [route_name |-> route_name, destination |-> destination,
     departure_time |-> departure_time]

RunningBoard(name, trips) ==
    [name |-> name, trips |-> trips, assigned_bus_id |-> None]

\* f"{hours:02d}:{minutes:02d}"
format_time(hours, minutes) ==
    (IF hours < 10 THEN "0" ELSE "") \o str(hours) \o ":" \o
    (IF minutes < 10 THEN "0" ELSE "") \o str(minutes)

\* load_running_board(name): the saved board, or None
load_running_board(folder, name) == folder[safe_name(name)]

\* save_running_board(board)
save_running_board(folder, board) ==
    [folder EXCEPT ![safe_name(board.name)] = Some(board)]

\* delete_running_board(name)
delete_running_board(folder, name) ==
    [folder EXCEPT ![safe_name(name)] = None]

\* list_running_boards(): sorted names read from the saved files
list_running_boards(folder) ==
    LET saved == {folder[f][1].name : f \in {g \in FileNames : folder[g] # None}}
    IN  SelectSeq(BoardNames, LAMBDA n : n \in saved)

-----------------------------------------------------------------------------
(* A new company: ManagerState(company_name=...) and an empty boards folder *)

NoBoards == [f \in FileNames |-> None]

\* the summary of a command that simulated no day
NoSummary ==
    [mode |-> "none", total_earnings |-> 0, total_fuel_cost |-> 0,
     reputation_change |-> 0, incidents |-> 0]

\* the summary of a run_day_simulation call that printed that there is nothing
\* to run and returned
NothingToRun == [NoSummary EXCEPT !.mode = "skipped"]

Init ==
    /\ company_name = "My Bus Company"
    /\ routes = <<>>
    /\ fleet = <<>>
    /\ money = 2500000 * 100
    /\ reputation = 50 * 2
    /\ day = 1
    /\ next_bus_id = 1
    /\ use_running_boards = FALSE
    /\ fuel_price = 1600
    /\ boards_folder = NoBoards
    /\ routes_created = 0
    /\ days_run = 0
    /\ summary = NoSummary

-----------------------------------------------------------------------------
(* Commands of the main menu.  A command that is rejected or cancelled      *)
(* prints a message and returns: the company state is left as it was.       *)

Rejected ==
    /\ UNCHANGED <<state_vars, boards_folder, routes_created, days_run>>
    /\ summary' = NoSummary

\* the early return of a day simulation
Skipped ==
    /\ UNCHANGED <<state_vars, boards_folder, routes_created, days_run>>
    /\ summary' = NothingToRun

\* buy_new_bus: the base game shop
\* (model, capacity, fuel capacity ml, efficiency 1/100, price pence, dlc_source)
shop == <<
    <<"ADL Enviro200 [Base Game]", 40, 160000, 26, 9000000, None>>,
    <<"ADL Enviro200 MMC [Base Game]", 40, 160000, 25, 9500000, None>>,
    <<"ADL Enviro400 [Base Game]", 80, 240000, 38, 13500000, None>>,
    <<"ADL Enviro400 MMC [Base Game]", 80, 240000, 38, 14000000, None>>,
    <<"ADL Enviro400 City [Base Game]", 80, 240000, 37, 14500000, None>>,
    <<"Wright Streetlite DF [Base Game]", 40, 150000, 25, 7200000, None>>,
    <<"Wright Streetlite WF [Base Game]", 40, 150000, 24, 7300000, None>>,
    <<"Wright Streetdeck Ultroliner [Base Game]", 75, 220000, 35, 13000000, None>>,
    <<"Wright Eclipse Urban [Base Game]", 40, 150000, 26, 7000000, None>>,
    <<"Wright Eclipse Urban 2 [Base Game]", 40, 150000, 25, 7200000, None>>,
    <<"Wright Eclipse Gemini [Base Game]", 80, 230000, 37, 13000000, None>>,
    <<"Wright Eclipse Gemini 2 [Base Game]", 80, 230000, 36, 13200000, None>>,
    <<"Wright Eclipse Gemini 3 [Base Game]", 80, 230000, 35, 13500000, None>>,
    <<"Scania N94UD Omnidekka [Base Game]", 80, 240000, 40, 13800000, None>>,
    <<"Scania N270UD Omnicity [Base Game]", 80, 230000, 38, 14000000, None>>,
    <<"Scania N230UD Enviro400 [Base Game]", 80, 240000, 37, 13700000, None>>,
    <<"Scania N250UD Enviro400 MMC [Base Game]", 80, 240000, 36, 14200000, None>>,
    <<"Scania L94UB Wright Solar [Base Game]", 40, 150000, 26, 7200000, None>>,
    <<"Optare Solo [Base Game]", 30, 120000, 22, 6000000, None>>,
    <<"Optare Solo SR [Base Game]", 30, 120000, 22, 6200000, None>>,
    <<"Dennis Trident Optare Olympus [Base Game]", 75, 230000, 38, 12500000, None>>,
    <<"Volvo B7TL Plaxton President [Base Game]", 80, 230000, 39, 13000000, None>>,
    <<"Dennis Dart MPD [Base Game]", 35, 140000, 24, 6500000, None>> >>

\* {bus.fleet_number for bus in fleet if bus.fleet_number}
existing_numbers(fl) ==
    {fl[i].fleet_number[1] :
        i \in {j \in DOMAIN fl : fl[j].fleet_number # None /\ fl[j].fleet_number # Some("")}}

\* n = 1; while str(n) in existing_numbers: n += 1
RECURSIVE auto_number(_, _)
auto_number(existing, n) ==
    IF str(n) \in existing THEN auto_number(existing, n + 1) ELSE n

\* the bus appended by a purchase that goes through
new_bus(item, bus_id, fleet_number) ==
    Bus(bus_id, item[1], item[2], item[3], item[3], item[4], item[5],
        Some(fleet_number), item[6])

\* buy_new_bus taking the bus id before the fleet number is checked
buy_new_bus_id_first(choice, entered_number) ==
    IF choice = 0 \/ ~(1 <= choice /\ choice <= Len(shop))
    THEN Rejected
    ELSE LET item == shop[choice]
             price == item[5]
             existing == existing_numbers(fleet)
             fleet_number == IF entered_number = ""
                             THEN str(auto_number(existing, 1))
                             ELSE entered_number
         IN  IF money < price
             THEN Rejected
             ELSE IF entered_number # "" /\ fleet_number \in existing
             THEN /\ next_bus_id' = next_bus_id + 1
                  /\ summary' = NoSummary
                  /\ UNCHANGED <<company_name, routes, fleet, money, reputation, day,
                                 use_running_boards, fuel_price, boards_folder,
                                 routes_created, days_run>>
             ELSE /\ next_bus_id' = next_bus_id + 1
                  /\ fleet' = Append(fleet, new_bus(item, next_bus_id, fleet_number))
                  /\ money' = money - price
                  /\ summary' = NoSummary
                  /\ UNCHANGED <<company_name, routes, reputation, day,
                                 use_running_boards, fuel_price, boards_folder,
                                 routes_created, days_run>>

\* buy_new_bus(state), with the shop number and the fleet number typed
buy_new_bus(choice, entered_number) ==
    IF choice = 0 \/ ~(1 <= choice /\ choice <= Len(shop))
    THEN Rejected
    ELSE LET item == shop[choice]
             price == item[5]
             existing == existing_numbers(fleet)
             fleet_number == IF entered_number = ""
                             THEN str(auto_number(existing, 1))
                             ELSE entered_number
         IN  IF money < price
             THEN Rejected
             ELSE IF entered_number # "" /\ fleet_number \in existing
             THEN Rejected
             ELSE /\ next_bus_id' = next_bus_id + 1
                  /\ fleet' = Append(fleet, new_bus(item, next_bus_id, fleet_number))
                  /\ money' = money - price
                  /\ summary' = NoSummary
                  /\ UNCHANGED <<company_name, routes, reputation, day,
                                 use_running_boards, fuel_price, boards_folder,
                                 routes_created, days_run>>

\* int(total_time * 1.2)
base_schedule(stops) == (total_time(stops) * 12) \div 10

\* add_route without the test of the balance
add_route_on_credit(name, stops, confirm) ==
    LET cost == 500 * 100 * Len(stops)
        base == base_schedule(stops)
    IN  IF name = "" \/ Len(stops) < 2 \/ confirm # "y"
        THEN Rejected
        ELSE /\ routes' = Append(routes, Route(name, stops, base, base))
             /\ money' = money - cost
             /\ routes_created' = routes_created + 1
             /\ summary' = NoSummary
             /\ UNCHANGED <<company_name, fleet, reputation, day, next_bus_id,
                            use_running_boards, fuel_price, boards_folder, days_run>>

\* add_route(state), with the name, the stops and the confirmation typed
add_route(name, stops, confirm) ==
    LET cost == 500 * 100 * Len(stops)
        base == base_schedule(stops)
    IN  IF name = "" \/ Len(stops) < 2 \/ confirm # "y" \/ money < cost
        THEN Rejected
        ELSE /\ routes' = Append(routes, Route(name, stops, base, base))
             /\ money' = money - cost
             /\ routes_created' = routes_created + 1
             /\ summary' = NoSummary
             /\ UNCHANGED <<company_name, fleet, reputation, day, next_bus_id,
                            use_running_boards, fuel_price, boards_folder, days_run>>

\* del state.routes[idx]
del_route(rs, idx) ==
    [i \in 1..(Len(rs) - 1) |-> IF i < idx THEN rs[i] ELSE rs[i + 1]]

\* delete_route without the test of route.assigned_bus_id
delete_route_unchecked(number, confirm) ==
    IF routes = <<>> \/ ~(1 <= number /\ number <= Len(routes)) \/ confirm # "y"
    THEN Rejected
    ELSE /\ routes' = del_route(routes, number)
         /\ summary' = NoSummary
         /\ UNCHANGED <<company_name, fleet, money, reputation, day, next_bus_id,
                        use_running_boards, fuel_price, boards_folder, routes_created, days_run>>

\* delete_route(state), with the route number and the confirmation typed
delete_route(number, confirm) ==
    IF routes = <<>> \/ ~(1 <= number /\ number <= Len(routes))
    THEN Rejected
    ELSE IF routes[number].assigned_bus_id # None
    THEN Rejected
    ELSE IF confirm = "y"
    THEN /\ routes' = del_route(routes, number)
         /\ summary' = NoSummary
         /\ UNCHANGED <<company_name, fleet, money, reputation, day, next_bus_id,
                        use_running_boards, fuel_price, boards_folder, routes_created, days_run>>
    ELSE Rejected

\* assign_bus_to_route without the loop that takes the bus off its old route
assign_routes_keep_old(rs, idx, bus_id) ==
    [rs EXCEPT ![idx].assigned_bus_id = Some(bus_id)]

\* the route list after the bus is taken off every route and put on route idx
assign_routes(rs, idx, bus_id) ==
    [i \in DOMAIN rs |->
        IF i = idx THEN [rs[i] EXCEPT !.assigned_bus_id = Some(bus_id)]
        ELSE IF rs[i].assigned_bus_id = Some(bus_id)
             THEN [rs[i] EXCEPT !.assigned_bus_id = None]
             ELSE rs[i]]

\* assign_bus_to_route leaving a route to the bus that is already on it
assign_bus_to_route_first_come(bus_id, number) ==
    IF use_running_boards \/ fleet = <<>> \/ routes = <<>>
    THEN Rejected
    ELSE LET b == find_bus(fleet, Some(bus_id))
         IN  IF b = 0 \/ ~(1 <= number /\ number <= Len(routes))
             THEN Rejected
             ELSE /\ routes' = IF routes[number].assigned_bus_id \in {None, Some(bus_id)}
                             THEN assign_routes(routes, number, bus_id)
                             ELSE routes
                  /\ fleet' = [fleet EXCEPT ![b].assigned_route = Some(routes[number].name)]
                  /\ summary' = NoSummary
                  /\ UNCHANGED <<company_name, money, reputation, day, next_bus_id,
                                 use_running_boards, fuel_price, boards_folder,
                                 routes_created, days_run>>

\* assign_bus_to_route taking a bus off the route it is typed for a second time
assign_bus_to_route_toggle(bus_id, number) ==
    IF use_running_boards \/ fleet = <<>> \/ routes = <<>>
    THEN Rejected
    ELSE LET b == find_bus(fleet, Some(bus_id))
         IN  IF b = 0 \/ ~(1 <= number /\ number <= Len(routes))
             THEN Rejected
             ELSE IF routes[number].assigned_bus_id = Some(bus_id)
             THEN /\ routes' = [routes EXCEPT ![number].assigned_bus_id = None]
                  /\ fleet' = [fleet EXCEPT ![b].assigned_route = None]
                  /\ summary' = NoSummary
                  /\ UNCHANGED <<company_name, money, reputation, day, next_bus_id,
                                 use_running_boards, fuel_price, boards_folder,
                                 routes_created, days_run>>
             ELSE /\ routes' = assign_routes(routes, number, bus_id)
                  /\ fleet' = [fleet EXCEPT ![b].assigned_route = Some(routes[number].name)]
                  /\ summary' = NoSummary
                  /\ UNCHANGED <<company_name, money, reputation, day, next_bus_id,
                                 use_running_boards, fuel_price, boards_folder,
                                 routes_created, days_run>>

\* assign_bus_to_route(state), with the bus id and the route number typed
assign_bus_to_route(bus_id, number) ==
    IF use_running_boards \/ fleet = <<>> \/ routes = <<>>
    THEN Rejected
    ELSE LET b == find_bus(fleet, Some(bus_id))
         IN  IF b = 0 \/ ~(1 <= number /\ number <= Len(routes))
             THEN Rejected
             ELSE /\ routes' = assign_routes(routes, number, bus_id)
                  /\ fleet' = [fleet EXCEPT ![b].assigned_route = Some(routes[number].name)]
                  /\ summary' = NoSummary
                  /\ UNCHANGED <<company_name, money, reputation, day, next_bus_id,
                                 use_running_boards, fuel_price, boards_folder,
                                 routes_created, days_run>>

\* the test of change_route_schedule with <= for <
too_short_inclusive(route, new_time) == new_time <= route.base_schedule_minutes \div 2

\* the test of change_route_schedule: the new time is too short
too_short(route, new_time) == new_time < route.base_schedule_minutes \div 2

\* change_route_schedule without the test of the new time
change_route_schedule_unchecked(number, new_time) ==
    IF routes = <<>> \/ ~(1 <= number /\ number <= Len(routes))
    THEN Rejected
    ELSE /\ routes' = [routes EXCEPT ![number].current_schedule_minutes = new_time]
         /\ summary' = NoSummary
         /\ UNCHANGED <<company_name, fleet, money, reputation, day, next_bus_id,
                        use_running_boards, fuel_price, boards_folder, routes_created, days_run>>

\* change_route_schedule(state), with the route number and the new time typed
change_route_schedule(number, new_time) ==
    IF routes = <<>> \/ ~(1 <= number /\ number <= Len(routes))
    THEN Rejected
    ELSE IF too_short(routes[number], new_time)
    THEN Rejected
    ELSE /\ routes' = [routes EXCEPT ![number].current_schedule_minutes = new_time]
         /\ summary' = NoSummary
         /\ UNCHANGED <<company_name, fleet, money, reputation, day, next_bus_id,
                        use_running_boards, fuel_price, boards_folder, routes_created, days_run>>

\* toggle_assignment_mode(state), with the confirmation typed
toggle_assignment_mode(confirm) ==
    IF confirm = "y"
    THEN /\ use_running_boards' = ~use_running_boards
         /\ summary' = NoSummary
         /\ UNCHANGED <<company_name, routes, fleet, money, reputation, day,
                        next_bus_id, fuel_price, boards_folder, routes_created, days_run>>
    ELSE Rejected

-----------------------------------------------------------------------------
(* Fleet view (menu 2): edit a fleet number, change a livery *)

\* edit_fleet_number without the test for another bus with the number
edit_fleet_number_unchecked(bus_id, new_number) ==
    IF fleet = <<>> \/ bus_id = 0 \/ find_bus(fleet, Some(bus_id)) = 0 \/ new_number = ""
    THEN Rejected
    ELSE /\ fleet' = [fleet EXCEPT
                         ![find_bus(fleet, Some(bus_id))].fleet_number = Some(new_number)]
         /\ summary' = NoSummary
         /\ UNCHANGED <<company_name, routes, money, reputation, day,
                        next_bus_id, use_running_boards, fuel_price,
                        boards_folder, routes_created, days_run>>

\* edit_fleet_number(state), with the bus id and the new number typed
edit_fleet_number(bus_id, new_number) ==
    IF fleet = <<>> \/ bus_id = 0 \/ find_bus(fleet, Some(bus_id)) = 0 \/ new_number = ""
    THEN Rejected
    ELSE LET b == find_bus(fleet, Some(bus_id))
         IN  IF \E i \in DOMAIN fleet :
                    fleet[i].fleet_number = Some(new_number) /\ fleet[i].bus_id # bus_id
             THEN Rejected
             ELSE /\ fleet' = [fleet EXCEPT ![b].fleet_number = Some(new_number)]
                  /\ summary' = NoSummary
                  /\ UNCHANGED <<company_name, routes, money, reputation, day,
                                 next_bus_id, use_running_boards, fuel_price,
                                 boards_folder, routes_created, days_run>>

AVAILABLE_LIVERIES == <<
    "Red & White", "Blue & Yellow", "Green & Cream", "Silver & Black",
    "Orange & White", "Purple & Gold", "All-over White", "All-over Red",
    "All-over Blue", "All-over Green", "Corporate Fleet", "Heritage Classic",
    "Modern Metro", "Express Service", "Night Service", "Airport Special",
    "City Centre", "Suburban Route", "Premium Service", "Eco-Friendly Green" >>

\* change_bus_livery repainting the bus before the balance is tested
change_bus_livery_paint_first(bus_id, livery_choice, confirm) ==
    IF fleet = <<>> \/ bus_id = 0 \/ find_bus(fleet, Some(bus_id)) = 0
       \/ livery_choice = 0
       \/ ~(1 <= livery_choice /\ livery_choice <= Len(AVAILABLE_LIVERIES))
    THEN Rejected
    ELSE LET b == find_bus(fleet, Some(bus_id))
             new_livery == AVAILABLE_LIVERIES[livery_choice]
             livery_cost == 500 * 100
         IN  IF new_livery = fleet[b].livery \/ confirm # "y"
             THEN Rejected
             ELSE /\ fleet' = [fleet EXCEPT ![b].livery = new_livery]
                  /\ money' = IF money < livery_cost THEN money ELSE money - livery_cost
                  /\ summary' = NoSummary
                  /\ UNCHANGED <<company_name, routes, reputation, day, next_bus_id,
                                 use_running_boards, fuel_price, boards_folder,
                                 routes_created, days_run>>

\* change_bus_livery(state), with the bus id, the livery number and the
\* confirmation typed
change_bus_livery(bus_id, livery_choice, confirm) ==
    IF fleet = <<>> \/ bus_id = 0 \/ find_bus(fleet, Some(bus_id)) = 0
       \/ livery_choice = 0
       \/ ~(1 <= livery_choice /\ livery_choice <= Len(AVAILABLE_LIVERIES))
    THEN Rejected
    ELSE LET b == find_bus(fleet, Some(bus_id))
             new_livery == AVAILABLE_LIVERIES[livery_choice]
             livery_cost == 500 * 100
         IN  IF new_livery = fleet[b].livery \/ confirm # "y" \/ money < livery_cost
             THEN Rejected
             ELSE /\ fleet' = [fleet EXCEPT ![b].livery = new_livery]
                  /\ money' = money - livery_cost
                  /\ summary' = NoSummary
                  /\ UNCHANGED <<company_name, routes, reputation, day, next_bus_id,
                                 use_running_boards, fuel_price, boards_folder,
                                 routes_created, days_run>>

-----------------------------------------------------------------------------
(* Running board management (menu 13) *)

\* the trips kept by the entry loop of create_running_board_interactive: a typed
\* trip is dropped when its route is unknown and "Add anyway?" is not answered y,
\* or when its destination is empty
kept_trips(typed) ==
    LET keep(t) == /\ t.route_name # ""
                   /\ (find_route(routes, t.route_name) # 0 \/ t.anyway = "y")
                   /\ t.destination # ""
        kept == SelectSeq(typed, keep)
    IN  [i \in DOMAIN kept |->
            Trip(kept[i].route_name, kept[i].destination,
                 format_time(kept[i].hours, kept[i].minutes))]

\* create_running_board_interactive(state)
create_running_board_interactive(name, overwrite, typed, confirm) ==
    IF name = ""
    THEN Rejected
    ELSE IF load_running_board(boards_folder, name) # None /\ overwrite # "y"
    THEN Rejected
    ELSE IF kept_trips(typed) = <<>> \/ confirm # "y"
    THEN Rejected
    ELSE /\ boards_folder' =
                save_running_board(boards_folder, RunningBoard(name, kept_trips(typed)))
         /\ summary' = NoSummary
         /\ UNCHANGED <<state_vars, routes_created, days_run>>

\* assign_bus_to_running_board refusing a bus that another board already has
assign_bus_to_running_board_exclusive(board_name, bus_id) ==
    IF fleet = <<>> \/ board_name = "" \/ load_running_board(boards_folder, board_name) = None
    THEN Rejected
    ELSE LET board == load_running_board(boards_folder, board_name)[1]
             taken == \E f \in FileNames :
                         /\ boards_folder[f] # None
                         /\ boards_folder[f][1].name # board.name
                         /\ boards_folder[f][1].assigned_bus_id = Some(bus_id)
         IN  IF bus_id = 0
             THEN /\ boards_folder' = save_running_board(boards_folder,
                                          [board EXCEPT !.assigned_bus_id = None])
                  /\ summary' = NoSummary
                  /\ UNCHANGED <<state_vars, routes_created, days_run>>
             ELSE IF find_bus(fleet, Some(bus_id)) = 0 \/ taken
             THEN Rejected
             ELSE /\ boards_folder' = save_running_board(boards_folder,
                                          [board EXCEPT !.assigned_bus_id = Some(bus_id)])
                  /\ summary' = NoSummary
                  /\ UNCHANGED <<state_vars, routes_created, days_run>>

\* assign_bus_to_running_board(state), with the board name and the bus id typed
assign_bus_to_running_board(board_name, bus_id) ==
    IF fleet = <<>> \/ board_name = "" \/ load_running_board(boards_folder, board_name) = None
    THEN Rejected
    ELSE LET board == load_running_board(boards_folder, board_name)[1]
         IN  IF bus_id = 0
             THEN /\ boards_folder' = save_running_board(boards_folder,
                                          [board EXCEPT !.assigned_bus_id = None])
                  /\ summary' = NoSummary
                  /\ UNCHANGED <<state_vars, routes_created, days_run>>
             ELSE IF find_bus(fleet, Some(bus_id)) = 0
             THEN Rejected
             ELSE /\ boards_folder' = save_running_board(boards_folder,
                                          [board EXCEPT !.assigned_bus_id = Some(bus_id)])
                  /\ summary' = NoSummary
                  /\ UNCHANGED <<state_vars, routes_created, days_run>>

\* delete_running_board_interactive(state)
delete_running_board_interactive(board_name, confirm) ==
    IF board_name = "" \/ load_running_board(boards_folder, board_name) = None
       \/ confirm # "y"
    THEN Rejected
    ELSE /\ boards_folder' = delete_running_board(boards_folder, board_name)
         /\ summary' = NoSummary
         /\ UNCHANGED <<state_vars, routes_created, days_run>>

-----------------------------------------------------------------------------
(* Fuel market *)

\* update_fuel_price without the lower end of the band
update_fuel_price_no_floor(price, fluctuation) == Min(2000, price + fluctuation)

\* update_fuel_price(state) with the fluctuation drawn
update_fuel_price(price, fluctuation) ==
    Max(1250, Min(2000, price + fluctuation))

-----------------------------------------------------------------------------
(* Day simulation.  The random draws of a day are choices: every sequence   *)
(* of draws gives one outcome, and the loops below build the set of them.   *)

\* random.randint(a, b)
randint(a, b) == a..b

\* random.random() < p, for 0 < p < 1
chance == BOOLEAN

\* what the loops of a day accumulate
StartOfDay ==
    [fleet |-> fleet, money |-> money, total_earnings |-> 0, total_fuel_cost |-> 0,
     reputation_change |-> 0, incidents |-> 0]

\* int(total_time * 1.5)
avg_demand(minutes) == (minutes * 3) \div 2

\* the passenger draw without min(bus.capacity, ...)
passengers_uncapped(bus, minutes) ==
    randint(Max(0, avg_demand(minutes) - 5), avg_demand(minutes) + 5)

\* min(bus.capacity, random.randint(max(0, avg_demand - 5), avg_demand + 5))
passengers(bus, minutes) ==
    {Min(bus.capacity, x) :
        x \in randint(Max(0, avg_demand(minutes) - 5), avg_demand(minutes) + 5)}

\* fuel_used * state.fuel_price, in pence
fuel_cost(used, price) == (used * price) \div 10000

\* the clamp without min(100.0, ...)
clamp_reputation_no_ceiling(r) == Max(0, r)

\* max(0.0, min(100.0, reputation + reputation_change))
clamp_reputation(r) == Max(0, Min(100 * 2, r))

\* the loop body with the schedule check as an else branch of the incident check
static_route_one_check(acc, route) ==
    LET b == find_bus(acc.fleet, route.assigned_bus_id)
    IN  IF b = 0
        THEN {[acc EXCEPT !.reputation_change = @ - 5 * 2]}
        ELSE LET bus == acc.fleet[b]
                 minutes == total_time(route.stops)
                 used == fuel_used(bus, minutes, 30)
                 cost == fuel_cost(used, fuel_price)
                 tight == route.current_schedule_minutes < route.base_schedule_minutes
             IN  {[fleet |-> [acc.fleet EXCEPT ![b] = consume_fuel(bus, minutes, 30)],
                   money |-> IF incident THEN acc.money - 200 * 100 ELSE acc.money,
                   total_earnings |-> acc.total_earnings + pax * 250,
                   total_fuel_cost |-> acc.total_fuel_cost + cost,
                   reputation_change |->
                       acc.reputation_change
                       + (IF incident THEN -(3 * 2)
                          ELSE 1 * 2 + (IF tight /\ late THEN -(2 * 2) ELSE 1 * 2)),
                   incidents |-> acc.incidents + (IF incident THEN 1 ELSE 0)] :
                    <<pax, incident, late>> \in
                        passengers(bus, minutes) \X chance
                            \X (IF tight THEN chance ELSE {FALSE})}

\* the loop body charging for the fuel that left the tank
static_route_charge_removed(acc, route) ==
    LET b == find_bus(acc.fleet, route.assigned_bus_id)
    IN  IF b = 0
        THEN {[acc EXCEPT !.reputation_change = @ - 5 * 2]}
        ELSE LET bus == acc.fleet[b]
                 minutes == total_time(route.stops)
                 used == Min(fuel_used(bus, minutes, 30), bus.fuel_level)
                 cost == fuel_cost(used, fuel_price)
                 tight == route.current_schedule_minutes < route.base_schedule_minutes
             IN  {[fleet |-> [acc.fleet EXCEPT ![b] = consume_fuel(bus, minutes, 30)],
                   money |-> IF incident THEN acc.money - 200 * 100 ELSE acc.money,
                   total_earnings |-> acc.total_earnings + pax * 250,
                   total_fuel_cost |-> acc.total_fuel_cost + cost,
                   reputation_change |->
                       acc.reputation_change
                       + (IF incident THEN -(3 * 2) ELSE 1 * 2)
                       + (IF tight /\ late THEN -(2 * 2) ELSE 1 * 2),
                   incidents |-> acc.incidents + (IF incident THEN 1 ELSE 0)] :
                    <<pax, incident, late>> \in
                        passengers(bus, minutes) \X chance
                            \X (IF tight THEN chance ELSE {FALSE})}

\* one pass of the loop of run_day_simulation_static: the outcomes for one route
static_route(acc, route) ==
    LET b == find_bus(acc.fleet, route.assigned_bus_id)
    IN  IF b = 0
        THEN {[acc EXCEPT !.reputation_change = @ - 5 * 2]}
        ELSE LET bus == acc.fleet[b]
                 minutes == total_time(route.stops)
                 used == fuel_used(bus, minutes, 30)
                 cost == fuel_cost(used, fuel_price)
                 tight == route.current_schedule_minutes < route.base_schedule_minutes
             IN  {[fleet |-> [acc.fleet EXCEPT ![b] = consume_fuel(bus, minutes, 30)],
                   money |-> IF incident THEN acc.money - 200 * 100 ELSE acc.money,
                   total_earnings |-> acc.total_earnings + pax * 250,
                   total_fuel_cost |-> acc.total_fuel_cost + cost,
                   reputation_change |->
                       acc.reputation_change
                       + (IF incident THEN -(3 * 2) ELSE 1 * 2)
                       + (IF tight /\ late THEN -(2 * 2) ELSE 1 * 2),
                   incidents |-> acc.incidents + (IF incident THEN 1 ELSE 0)] :
                    <<pax, incident, late>> \in
                        passengers(bus, minutes) \X chance
                            \X (IF tight THEN chance ELSE {FALSE})}

\* the loop over state.routes with a break for continue at a route without a bus
RECURSIVE static_loop_until_unserved(_, _)
static_loop_until_unserved(accs, rs) ==
    IF rs = <<>> THEN accs
    ELSE IF find_bus(fleet, Head(rs).assigned_bus_id) = 0
    THEN UNION {static_route(a, Head(rs)) : a \in accs}
    ELSE static_loop_until_unserved(UNION {static_route(a, Head(rs)) : a \in accs},
                                    Tail(rs))

\* the loop over state.routes
RECURSIVE static_loop(_, _)
static_loop(accs, rs) ==
    IF rs = <<>> THEN accs
    ELSE static_loop(UNION {static_route(a, Head(rs)) : a \in accs}, Tail(rs))

\* the end of a simulated day with the incident penalties refunded to money,
\* as if they had been part of the earnings
settle_incidents_from_earnings(acc, fluctuation, mode) ==
    /\ fleet' = acc.fleet
    /\ money' = acc.money + 200 * 100 * acc.incidents
                   + (acc.total_earnings - acc.total_fuel_cost)
    /\ reputation' = clamp_reputation(reputation + acc.reputation_change)
    /\ fuel_price' = update_fuel_price(fuel_price, fluctuation)
    /\ day' = day + 1
    /\ days_run' = days_run + 1
    /\ summary' = [mode |-> mode, total_earnings |-> acc.total_earnings,
                   total_fuel_cost |-> acc.total_fuel_cost,
                   reputation_change |-> acc.reputation_change,
                   incidents |-> acc.incidents]
    /\ UNCHANGED <<company_name, routes, next_bus_id, use_running_boards,
                   boards_folder, routes_created>>

\* the end of a simulated day with update_fuel_price called a second time
settle_advance_twice(acc, fluctuation, mode) ==
    /\ fleet' = acc.fleet
    /\ money' = acc.money + (acc.total_earnings - acc.total_fuel_cost)
    /\ reputation' = clamp_reputation(reputation + acc.reputation_change)
    /\ fuel_price' = update_fuel_price(update_fuel_price(fuel_price, fluctuation),
                                      fluctuation)
    /\ day' = day + 1
    /\ days_run' = days_run + 1
    /\ summary' = [mode |-> mode, total_earnings |-> acc.total_earnings,
                   total_fuel_cost |-> acc.total_fuel_cost,
                   reputation_change |-> acc.reputation_change,
                   incidents |-> acc.incidents]
    /\ UNCHANGED <<company_name, routes, next_bus_id, use_running_boards,
                   boards_folder, routes_created>>

\* the end of a simulated day: money, reputation, fuel price, day counter
settle(acc, fluctuation, mode) ==
    /\ fleet' = acc.fleet
    /\ money' = acc.money + (acc.total_earnings - acc.total_fuel_cost)
    /\ reputation' = clamp_reputation(reputation + acc.reputation_change)
    /\ fuel_price' = update_fuel_price(fuel_price, fluctuation)
    /\ day' = day + 1
    /\ days_run' = days_run + 1
    /\ summary' = [mode |-> mode, total_earnings |-> acc.total_earnings,
                   total_fuel_cost |-> acc.total_fuel_cost,
                   reputation_change |-> acc.reputation_change,
                   incidents |-> acc.incidents]
    /\ UNCHANGED <<company_name, routes, next_bus_id, use_running_boards,
                   boards_folder, routes_created>>

\* run_day_simulation_static without the two returns at its top
run_day_simulation_static_no_test(fluctuation) ==
    \E acc \in static_loop({StartOfDay}, routes) :
        settle(acc, fluctuation, "static")

\* run_day_simulation_static(state)
run_day_simulation_static(fluctuation) ==
    IF routes = <<>> \/ fleet = <<>>
    THEN Skipped
    ELSE \E acc \in static_loop({StartOfDay}, routes) :
            settle(acc, fluctuation, "static")

\* the boards run_day_simulation_running_boards works through: saved boards with
\* a bus id, in the order of list_running_boards
boards_in_service ==
    LET names == list_running_boards(boards_folder)
        loaded == [i \in DOMAIN names |-> load_running_board(boards_folder, names[i])]
        usable(b) == b # None /\ b[1].assigned_bus_id # None
        kept == SelectSeq(loaded, usable)
    IN  [i \in DOMAIN kept |-> kept[i][1]]

\* the loop body testing the fuel level the bus had in the morning
board_trip_morning_level(acc, b, trip) ==
    LET r == find_route(routes, trip.route_name)
    IN  IF r = 0
        THEN {[acc EXCEPT !.reputation_change = @ - 2 * 2]}
        ELSE LET bus == acc.fleet[b]
                 minutes == total_time(routes[r].stops)
                 fuel_needed == minutes * bus.fuel_efficiency * 5
                 used == fuel_used(bus, minutes, 30)
                 cost == fuel_cost(used, fuel_price)
             IN  IF fleet[b].fuel_level < fuel_needed
                 THEN {[acc EXCEPT !.reputation_change = @ - 5 * 2]}
                 ELSE {[fleet |-> [acc.fleet EXCEPT ![b] = consume_fuel(bus, minutes, 30)],
                        money |-> acc.money,
                        total_earnings |-> acc.total_earnings + pax * 250,
                        total_fuel_cost |-> acc.total_fuel_cost + cost,
                        reputation_change |->
                            acc.reputation_change + (IF incident THEN -(1 * 2) ELSE 1),
                        incidents |-> acc.incidents + (IF incident THEN 1 ELSE 0)] :
                         <<pax, incident>> \in passengers(bus, minutes) \X chance}

\* the loop body with the repair bill of the static simulation
board_trip_repair_bill(acc, b, trip) ==
    LET r == find_route(routes, trip.route_name)
    IN  IF r = 0
        THEN {[acc EXCEPT !.reputation_change = @ - 2 * 2]}
        ELSE LET bus == acc.fleet[b]
                 minutes == total_time(routes[r].stops)
                 fuel_needed == minutes * bus.fuel_efficiency * 5
                 used == fuel_used(bus, minutes, 30)
                 cost == fuel_cost(used, fuel_price)
             IN  IF bus.fuel_level < fuel_needed
                 THEN {[acc EXCEPT !.reputation_change = @ - 5 * 2]}
                 ELSE {[fleet |-> [acc.fleet EXCEPT ![b] = consume_fuel(bus, minutes, 30)],
                        money |-> IF incident THEN acc.money - 200 * 100 ELSE acc.money,
                        total_earnings |-> acc.total_earnings + pax * 250,
                        total_fuel_cost |-> acc.total_fuel_cost + cost,
                        reputation_change |->
                            acc.reputation_change + (IF incident THEN -(1 * 2) ELSE 1),
                        incidents |-> acc.incidents + (IF incident THEN 1 ELSE 0)] :
                         <<pax, incident>> \in passengers(bus, minutes) \X chance}

\* one pass of the loop over board.trips: the outcomes for one trip of the bus at b
board_trip(acc, b, trip) ==
    LET r == find_route(routes, trip.route_name)
    IN  IF r = 0
        THEN {[acc EXCEPT !.reputation_change = @ - 2 * 2]}
        ELSE LET bus == acc.fleet[b]
                 minutes == total_time(routes[r].stops)
                 \* total_time / 60 * 30 * bus.fuel_efficiency, in millilitres
                 fuel_needed == minutes * bus.fuel_efficiency * 5
                 used == fuel_used(bus, minutes, 30)
                 cost == fuel_cost(used, fuel_price)
             IN  IF bus.fuel_level < fuel_needed
                 THEN {[acc EXCEPT !.reputation_change = @ - 5 * 2]}
                 ELSE {[fleet |-> [acc.fleet EXCEPT ![b] = consume_fuel(bus, minutes, 30)],
                        money |-> acc.money,
                        total_earnings |-> acc.total_earnings + pax * 250,
                        total_fuel_cost |-> acc.total_fuel_cost + cost,
                        reputation_change |->
                            acc.reputation_change + (IF incident THEN -(1 * 2) ELSE 1),
                        incidents |-> acc.incidents + (IF incident THEN 1 ELSE 0)] :
                         <<pax, incident>> \in passengers(bus, minutes) \X chance}

\* the loop over board.trips with a break for continue at a trip without a route
RECURSIVE trip_loop_until_missing(_, _, _)
trip_loop_until_missing(accs, b, trips) ==
    IF trips = <<>> THEN accs
    ELSE IF find_route(routes, Head(trips).route_name) = 0
    THEN UNION {board_trip(a, b, Head(trips)) : a \in accs}
    ELSE trip_loop_until_missing(UNION {board_trip(a, b, Head(trips)) : a \in accs},
                                 b, Tail(trips))

\* the loop over board.trips
RECURSIVE trip_loop(_, _, _)
trip_loop(accs, b, trips) ==
    IF trips = <<>> THEN accs
    ELSE trip_loop(UNION {board_trip(a, b, Head(trips)) : a \in accs}, b, Tail(trips))

\* the loop over the boards: a board whose bus id is not in the fleet is skipped
RECURSIVE board_loop(_, _)
board_loop(accs, boards) ==
    IF boards = <<>> THEN accs
    ELSE LET b == find_bus(fleet, Head(boards).assigned_bus_id)
         IN  board_loop(IF b = 0 THEN accs ELSE trip_loop(accs, b, Head(boards).trips),
                        Tail(boards))

\* run_day_simulation_running_boards without the return for an empty board list
run_day_simulation_running_boards_no_test(fluctuation) ==
    \E acc \in board_loop({StartOfDay}, boards_in_service) :
        settle(acc, fluctuation, "boards")

\* run_day_simulation_running_boards(state)
run_day_simulation_running_boards(fluctuation) ==
    IF boards_in_service = <<>>
    THEN Skipped
    ELSE \E acc \in board_loop({StartOfDay}, boards_in_service) :
            settle(acc, fluctuation, "boards")

\* run_day_simulation(state)
run_day_simulation(fluctuation) ==
    IF use_running_boards
    THEN run_day_simulation_running_boards(fluctuation)
    ELSE run_day_simulation_static(fluctuation)

-----------------------------------------------------------------------------
(* What is typed and drawn in this model *)

ShopChoices == {0, 2, 24}
EnteredNumbers == {"", "1"}

RouteA == <<Stop("Depot", 8), Stop("Market", 48)>>
RouteB == <<Stop("Depot", 0), Stop("Airport", 640), Stop("Harbour", 640)>>
TypedRoutes ==
    {<<"R1", RouteA>>, <<"R2", RouteB>>, <<"R3", <<Stop("Depot", 0)>>>>}

Confirmations == {"y", "n"}
BusIds == 0..MaxFleet
RouteNumbers == 0..MaxRoutes
NewTimes == {27, 28, 768}

TypedTrip(route_name, anyway, destination, hours, minutes) ==
    [route_name |-> route_name, anyway |-> anyway, destination |-> destination,
     hours |-> hours, minutes |-> minutes]
TypedTripLists ==
    {<<TypedTrip("R2", "y", "Airport", 8, 0), TypedTrip("R2", "y", "Harbour", 9, 30),
       TypedTrip("R1", "y", "Market", 7, 5)>>,
     <<TypedTrip("R1", "n", "Market", 10, 15)>>}
TypedBoardNames == {BoardNames[i] : i \in DOMAIN BoardNames}
BoardBusIds == {0, 1, 9}

\* random.uniform(-0.05, 0.05): the two ends
Fluctuations == {-50, 50}

\* the run is followed while days remain to be simulated
InPlay == days_run < MaxDay

Next ==
    \/ \E choice \in ShopChoices, number \in EnteredNumbers :
          InPlay /\ Len(fleet) < MaxFleet /\ buy_new_bus(choice, number)
    \/ \E r \in TypedRoutes, confirm \in Confirmations :
          InPlay /\ routes_created < MaxRoutes /\ add_route(r[1], r[2], confirm)
    \/ \E number \in RouteNumbers, confirm \in Confirmations :
          InPlay /\ delete_route(number, confirm)
    \/ \E bus_id \in BusIds, number \in RouteNumbers :
          InPlay /\ assign_bus_to_route(bus_id, number)
    \/ \E number \in RouteNumbers, new_time \in NewTimes :
          InPlay /\ change_route_schedule(number, new_time)
    \/ \E confirm \in Confirmations :
          InPlay /\ toggle_assignment_mode(confirm)
    \/ \E name \in TypedBoardNames, overwrite \in Confirmations,
          typed \in TypedTripLists, confirm \in Confirmations :
          InPlay /\ create_running_board_interactive(name, overwrite, typed, confirm)
    \/ \E name \in TypedBoardNames, bus_id \in BoardBusIds :
          InPlay /\ assign_bus_to_running_board(name, bus_id)
    \/ \E name \in TypedBoardNames, confirm \in Confirmations :
          InPlay /\ delete_running_board_interactive(name, confirm)
    \/ \E fluctuation \in Fluctuations :
          InPlay /\ run_day_simulation(fluctuation)

Spec == Init /\ [][Next]_vars

-----------------------------------------------------------------------------
(* The fuel market alone: update_fuel_price called again and again, with    *)
(* the fluctuation drawn on a grid of 0.001 over [-0.05, 0.05].             *)

FineFluctuations == (0 - 50)..50

advance(fluctuation) ==
    /\ fuel_price' = update_fuel_price(fuel_price, fluctuation)
    /\ UNCHANGED <<company_name, routes, fleet, money, reputation, day, next_bus_id,
                   use_running_boards, boards_folder, routes_created, days_run,
                   summary>>

NextFuel == \E fluctuation \in FineFluctuations : advance(fluctuation)

SpecFuel == Init /\ [][NextFuel]_vars

-----------------------------------------------------------------------------
(* Two companies later in their life.  Both bought bus 1 and created route  *)
(* R1 on day 1 and then simulated the days below in static mode, the fuel   *)
(* price moving down and up in turn.                                        *)
(*   Established: bus 1 on R1 for 25 days with no incident, so reputation   *)
(*     is 50 + 25 * 2 = 100, bus 1 has 160 - 25 * 3.6 = 70 litres left and  *)
(*     the 25 days brought 25 * 100 in fares less 141.84 in fuel.           *)
(*   Neglected: R1 without a bus for 10 days, so reputation is              *)
(*     50 - 10 * 5 = 0.                                                     *)

Established ==
    [routes |-> <<[Route("R1", RouteA, 57, 57) EXCEPT !.assigned_bus_id = Some(1)]>>,
     fleet |-> <<[new_bus(shop[2], 1, "1") EXCEPT !.fuel_level = 70000,
                                                 !.assigned_route = Some("R1")]>>,
     money |-> 240635816, reputation |-> 100 * 2, day |-> 26, fuel_price |-> 1550]

Neglected ==
    [routes |-> <<Route("R1", RouteA, 57, 57)>>,
     fleet |-> <<new_bus(shop[2], 1, "1")>>,
     money |-> 240400000, reputation |-> 0, day |-> 11, fuel_price |-> 1600]

InitLate ==
    /\ company_name = "My Bus Company"
    /\ \E c \in {Established, Neglected} :
          /\ routes = c.routes
          /\ fleet = c.fleet
          /\ money = c.money
          /\ reputation = c.reputation
          /\ day = c.day
          /\ fuel_price = c.fuel_price
    /\ next_bus_id = 2
    /\ use_running_boards = FALSE
    /\ boards_folder = NoBoards
    /\ routes_created = 1
    /\ days_run = 0
    /\ summary = NoSummary

SpecLate == InitLate /\ [][Next]_vars

-----------------------------------------------------------------------------
(* The distance-based variant of the program (code.py).  Its company has no *)
(* assignment mode, fuel price or running boards: those variables keep      *)
(* their values, fuel_price standing for the fixed 1.60 of its fuel cost.   *)
(* A stop's distance is held in quarters of a kilometre, and the buses      *)
(* below have efficiency 0.40, so fuel is a whole number of millilitres and *)
(* its cost a whole number of pence.                                        *)

legacy_Stop(name, quarters) == [name |-> name, distance_from_prev_km |-> quarters]

legacy_Bus(bus_id, model, capacity, fuel_capacity, fuel_level, fuel_efficiency, purchase_price, fleet_number) ==
    [bus_id |-> bus_id, model |-> model, capacity |-> capacity,
     fuel_capacity |-> fuel_capacity, fuel_level |-> fuel_level,
     fuel_efficiency |-> fuel_efficiency, assigned_route |-> None,
     health |-> 100, purchase_price |-> purchase_price,
     fleet_number |-> fleet_number]

\* sum(stop.distance_from_prev_km for stop in route.stops[1:])
total_distance(stops) ==
    SumSeq([i \in 1..(Len(stops) - 1) |-> stops[i + 1].distance_from_prev_km])

\* fuel used by Bus.consume_fuel(distance), speed 50, in millilitres
legacy_fuel_used(bus, distance) == (distance * bus.fuel_efficiency * 5) \div 2

\* the bus after Bus.consume_fuel(distance)
legacy_consume_fuel(bus, distance) ==
    [bus EXCEPT !.fuel_level = Max(bus.fuel_level - legacy_fuel_used(bus, distance), 0)]

\* int(total_distance * 10)
legacy_avg_demand(distance) == (distance * 10) \div 4

\* min(bus.capacity, random.randint(max(0, avg_demand - 5), avg_demand + 5))
legacy_passengers(bus, distance) ==
    {Min(bus.capacity, x) :
        x \in randint(Max(0, legacy_avg_demand(distance) - 5),
                      legacy_avg_demand(distance) + 5)}

\* max(int(total_distance / 30 * 60), 10)
legacy_base_schedule(stops) == Max(total_distance(stops) \div 2, 10)

\* one pass of the loop of run_day_simulation: the outcomes for one route
legacy_route(acc, route) ==
    LET b == find_bus(acc.fleet, route.assigned_bus_id)
    IN  IF b = 0
        THEN {[acc EXCEPT !.reputation_change = @ - 5 * 2]}
        ELSE LET bus == acc.fleet[b]
                 distance == total_distance(route.stops)
                 used == legacy_fuel_used(bus, distance)
                 cost == fuel_cost(used, 1600)
                 tight == route.current_schedule_minutes < route.base_schedule_minutes
             IN  {[fleet |-> [acc.fleet EXCEPT ![b] = legacy_consume_fuel(bus, distance)],
                   money |-> IF incident THEN acc.money - 20 * 100 ELSE acc.money,
                   total_earnings |-> acc.total_earnings + pax * 250,
                   total_fuel_cost |-> acc.total_fuel_cost + cost,
                   reputation_change |->
                       acc.reputation_change
                       + (IF incident THEN -(3 * 2) ELSE 1 * 2)
                       + (IF tight /\ late THEN -(2 * 2) ELSE 1 * 2),
                   incidents |-> acc.incidents + (IF incident THEN 1 ELSE 0)] :
                    <<pax, incident, late>> \in
                        legacy_passengers(bus, distance) \X chance
                            \X (IF tight THEN chance ELSE {FALSE})}

\* the loop over state.routes
RECURSIVE legacy_loop(_, _)
legacy_loop(accs, rs) ==
    IF rs = <<>> THEN accs
    ELSE legacy_loop(UNION {legacy_route(a, Head(rs)) : a \in accs}, Tail(rs))

\* the end of the day: money, reputation, day counter
legacy_settle(acc) ==
    /\ fleet' = acc.fleet
    /\ money' = acc.money + (acc.total_earnings - acc.total_fuel_cost)
    /\ reputation' = clamp_reputation(reputation + acc.reputation_change)
    /\ day' = day + 1
    /\ days_run' = days_run + 1
    /\ summary' = [mode |-> "legacy", total_earnings |-> acc.total_earnings,
                   total_fuel_cost |-> acc.total_fuel_cost,
                   reputation_change |-> acc.reputation_change,
                   incidents |-> acc.incidents]
    /\ UNCHANGED <<company_name, routes, next_bus_id, use_running_boards,
                   fuel_price, boards_folder, routes_created>>

\* run_day_simulation(state) of code.py
legacy_run_day_simulation ==
    IF routes = <<>> \/ fleet = <<>>
    THEN Skipped
    ELSE \E acc \in legacy_loop({StartOfDay}, routes) : legacy_settle(acc)

-----------------------------------------------------------------------------
(* One day of a company that has set up its routes, in either variant.      *)
(* Each company below bought bus 1 (or loaded it from a save file), created *)
(* its routes R1, R2, ... from a depot to one stop, and assigned bus 1 to   *)
(* the route marked as served; the other routes have no bus.  A company of  *)
(* game.py may have switched to running board mode, with board B1, one trip *)
(* on the served route, given to bus 1.                                     *)

\* travel times in minutes (game.py) and distances in quarter km (code.py)
Workloads == {0, 3, 8, 24, 48}
legacy_Workloads == {1, 3, 20, 40}

\* item 15 of the shop of code.py
legacy_omnidekka == <<"Scania N94UD Omnidekka", 80, 240000, 40, 13800000>>

\* bus 1 as bought in code.py, and a bus of capacity 50 read by load_game
legacy_bought == legacy_Bus(1, legacy_omnidekka[1], legacy_omnidekka[2], legacy_omnidekka[3], legacy_omnidekka[3], legacy_omnidekka[4], legacy_omnidekka[5], Some("1"))
legacy_loaded == legacy_Bus(1, "Midi 50", 50, 200000, 200000, 40, 0, None)

\* a plan of routes: each entry is a workload and whether bus 1 serves it
Plans(loads, rest) ==
    {<<<<w, TRUE>>>> : w \in loads}
        \cup {<<<<rest, FALSE>>, <<rest, TRUE>>>>, <<<<rest, TRUE>>, <<rest, FALSE>>>>,
              <<<<rest, FALSE>>, <<rest, FALSE>>>>}

planned_routes(plan) ==
    [i \in DOMAIN plan |->
        LET stops == <<Stop("Depot", 0), Stop("Stop", plan[i][1])>>
            r == Route("R" \o str(i), stops, base_schedule(stops), base_schedule(stops))
        IN  IF plan[i][2] THEN [r EXCEPT !.assigned_bus_id = Some(1)] ELSE r]

legacy_planned_routes(plan) ==
    [i \in DOMAIN plan |->
        LET stops == <<legacy_Stop("Depot", 0), legacy_Stop("Stop", plan[i][1])>>
            r == Route("R" \o str(i), stops, legacy_base_schedule(stops),
                       legacy_base_schedule(stops))
        IN  IF plan[i][2] THEN [r EXCEPT !.assigned_bus_id = Some(1)] ELSE r]

\* the route bus 1 was assigned to last, if any
planned_assignment(plan) ==
    IF \E i \in DOMAIN plan : plan[i][2]
    THEN Some("R" \o str(CHOOSE i \in DOMAIN plan : plan[i][2]))
    ELSE None

\* the trips of board B1: one on each route marked as served
planned_trips(plan) ==
    LET marked == SelectSeq([i \in DOMAIN plan |-> <<i, plan[i][2]>>], LAMBDA e : e[2])
    IN  [j \in DOMAIN marked |-> Trip("R" \o str(marked[j][1]), "Stop", "08:00")]

\* the company of code.py that served one route of 5 km for 25 days without an
\* incident, carrying 50 passengers a day
legacy_Established ==
    [routes |-> legacy_planned_routes(<<<<20, TRUE>>>>),
     fleet |-> <<[legacy_bought EXCEPT !.fuel_level = 190000,
                                       !.assigned_route = Some("R1")]>>,
     money |-> 236404500, reputation |-> 100 * 2, day |-> 26, fuel_price |-> 1600]

\* the company of code.py that left its two routes without a bus for 5 days
legacy_Neglected ==
    [routes |-> legacy_planned_routes(<<<<20, FALSE>>, <<20, FALSE>>>>),
     fleet |-> <<legacy_bought>>,
     money |-> 236000000, reputation |-> 0, day |-> 6, fuel_price |-> 1600]

InitDay ==
    /\ company_name = "My Bus Company"
    /\ \/ /\ \E plan \in Plans(Workloads, 8) :
                /\ routes = planned_routes(plan)
                /\ fleet = <<[new_bus(shop[2], 1, "1") EXCEPT
                                 !.assigned_route = planned_assignment(plan)]>>
                /\ money = 2500000 * 100 - shop[2][5] - 500 * 100 * 2 * Len(plan)
                /\ \E mode \in BOOLEAN :
                      /\ use_running_boards = mode
                      /\ boards_folder =
                            IF mode /\ planned_trips(plan) # <<>>
                            THEN save_running_board(NoBoards,
                                     [RunningBoard("B1", planned_trips(plan))
                                         EXCEPT !.assigned_bus_id = Some(1)])
                            ELSE NoBoards
          /\ reputation = 50 * 2
          /\ day = 1
          /\ fuel_price = 1600
       \/ /\ \E plan \in Plans(legacy_Workloads, 20), bus \in {legacy_bought, legacy_loaded} :
                /\ routes = legacy_planned_routes(plan)
                /\ fleet = <<[bus EXCEPT !.assigned_route = planned_assignment(plan)]>>
                /\ money = 2500000 * 100 - bus.purchase_price - 500 * 100 * 2 * Len(plan)
          /\ use_running_boards = FALSE
          /\ boards_folder = NoBoards
          /\ reputation = 50 * 2
          /\ day = 1
          /\ fuel_price = 1600
       \/ \E c \in {Established, Neglected, legacy_Established, legacy_Neglected} :
             /\ routes = c.routes
             /\ fleet = c.fleet
             /\ money = c.money
             /\ reputation = c.reputation
             /\ day = c.day
             /\ fuel_price = c.fuel_price
             /\ use_running_boards = FALSE
             /\ boards_folder = NoBoards
    /\ next_bus_id = 2
    /\ routes_created = Len(routes)
    /\ days_run = 0
    /\ summary = NoSummary

\* the company is one of code.py
Legacy == routes # <<>> /\ "distance_from_prev_km" \in DOMAIN routes[1].stops[1]

NextDay ==
    \/ \E fluctuation \in Fluctuations :
          InPlay /\ ~Legacy /\ run_day_simulation(fluctuation)
    \/ InPlay /\ Legacy /\ legacy_run_day_simulation

SpecDay == InitDay /\ [][NextDay]_vars

-----------------------------------------------------------------------------
(* One day of a company that has changed the schedules of its routes.  Each *)
(* company is one of the planned companies above in static mode, after      *)
(* change_route_schedule on every route with the shortest time the command  *)
(* accepts, with the base time, or with five minutes more than the base.    *)

Adjustments == {"tight", "base", "slack"}

\* the new time typed for a route
adjusted_time(route, adjustment) ==
    IF adjustment = "tight" THEN route.base_schedule_minutes \div 2
    ELSE IF adjustment = "slack" THEN route.base_schedule_minutes + 5
    ELSE route.base_schedule_minutes

\* the routes after change_route_schedule on each of them
adjusted_routes(rs, adjustment) ==
    [i \in DOMAIN rs |->
        [rs[i] EXCEPT !.current_schedule_minutes = adjusted_time(rs[i], adjustment)]]

InitTight ==
    /\ company_name = "My Bus Company"
    /\ \E adjustment \in Adjustments :
          \/ \E plan \in Plans(Workloads, 8) :
                /\ routes = adjusted_routes(planned_routes(plan), adjustment)
                /\ fleet = <<[new_bus(shop[2], 1, "1") EXCEPT
                                 !.assigned_route = planned_assignment(plan)]>>
                /\ money = 2500000 * 100 - shop[2][5] - 500 * 100 * 2 * Len(plan)
          \/ \E plan \in Plans(legacy_Workloads, 20), bus \in {legacy_bought, legacy_loaded} :
                /\ routes = adjusted_routes(legacy_planned_routes(plan), adjustment)
                /\ fleet = <<[bus EXCEPT !.assigned_route = planned_assignment(plan)]>>
                /\ money = 2500000 * 100 - bus.purchase_price - 500 * 100 * 2 * Len(plan)
    /\ use_running_boards = FALSE
    /\ boards_folder = NoBoards
    /\ reputation = 50 * 2
    /\ day = 1
    /\ fuel_price = 1600
    /\ next_bus_id = 2
    /\ routes_created = Len(routes)
    /\ days_run = 0
    /\ summary = NoSummary

SpecTight == InitTight /\ [][NextDay]_vars

-----------------------------------------------------------------------------
(* One day of a company that has run its tank down.  The company bought     *)
(* shop item 2 (tank 160 litres), added route R1 over the stops of RouteB   *)
(* (1280 minutes a run, 96 litres) and route R2 to one stop, put bus 1 on   *)
(* R1 and ran one or two days without incident, the price going up on the   *)
(* first and down on the second; it may then have moved bus 1 to R2.  After *)
(* one day 64 litres are left, after two the tank is empty.                 *)

DryDays == {1, 2}

dry_routes(w, served) ==
    LET short == <<Stop("Depot", 0), Stop("Stop", w)>>
        rs == <<Route("R1", RouteB, base_schedule(RouteB), base_schedule(RouteB)),
                Route("R2", short, base_schedule(short), base_schedule(short))>>
    IN  [rs EXCEPT ![served].assigned_bus_id = Some(1)]

dry_fleet(d, served) ==
    <<[new_bus(shop[2], 1, "1") EXCEPT
          !.fuel_level = IF d = 1 THEN 64000 ELSE 0,
          !.assigned_route = Some(IF served = 1 THEN "R1" ELSE "R2")]>>

dry_money(d) == IF d = 1 THEN 240244640 ELSE 240238800

\* each day +1 +1 for R1 and -5 for R2
dry_reputation(d) == 50 * 2 - d * 3 * 2

dry_price(d) == IF d = 1 THEN 1650 ELSE 1600

InitDry ==
    /\ company_name = "My Bus Company"
    /\ \E w \in Workloads, d \in DryDays, served \in {1, 2} :
          /\ routes = dry_routes(w, served)
          /\ fleet = dry_fleet(d, served)
          /\ money = dry_money(d)
          /\ reputation = dry_reputation(d)
          /\ day = d + 1
          /\ fuel_price = dry_price(d)
    /\ next_bus_id = 2
    /\ use_running_boards = FALSE
    /\ boards_folder = NoBoards
    /\ routes_created = 2
    /\ days_run = 0
    /\ summary = NoSummary

NextDry ==
    \E fluctuation \in Fluctuations :
        InPlay /\ run_day_simulation(fluctuation)

SpecDry == InitDry /\ [][NextDry]_vars

-----------------------------------------------------------------------------
(* One day of a company in running board mode.  The company bought shop     *)
(* item 2, added route R1 over the stops of RouteB and route R2 to one      *)
(* stop, switched to running board mode, and wrote its boards; a trip on    *)
(* R9 was typed for a route that does not exist and kept anyway.  The       *)
(* boards are files of the running_boards folder, which a new company finds *)
(* as the last one left it: a board may name bus 2 of an earlier company.   *)

\* the route names of the trips of a board
TripPlans ==
    {<<"R2">>, <<"R9">>, <<"R9", "R2">>, <<"R2", "R9">>, <<"R9", "R9">>,
     <<"R2", "R2">>, <<"R1", "R2">>, <<"R1", "R1">>, <<"R1", "R1", "R2">>,
     <<"R1", "R9", "R2">>}

planned_board(name, plan, bus) ==
    [RunningBoard(name, [i \in DOMAIN plan |->
                            Trip(plan[i], "Stop", format_time(8 + i, 0))])
        EXCEPT !.assigned_bus_id = bus]

\* the folders the day starts with: board B1 alone, with bus 1 or without a
\* bus; bus 1 on both boards; board B#2 left with bus 2, alone or beside B1
BoardFolders ==
    {save_running_board(NoBoards, planned_board("B1", plan, Some(1))) :
        plan \in TripPlans}
    \cup {save_running_board(NoBoards, planned_board("B1", <<"R2">>, None)),
          save_running_board(
              save_running_board(NoBoards, planned_board("B1", <<"R1", "R2">>, Some(1))),
              planned_board("B#2", <<"R1">>, Some(1))),
          save_running_board(NoBoards, planned_board("B#2", <<"R2">>, Some(2))),
          save_running_board(
              save_running_board(NoBoards, planned_board("B1", <<"R2">>, Some(1))),
              planned_board("B#2", <<"R2", "R9">>, Some(2)))}

InitBoards ==
    /\ company_name = "My Bus Company"
    /\ \E w \in Workloads :
          routes = LET short == <<Stop("Depot", 0), Stop("Stop", w)>>
                   IN  <<Route("R1", RouteB, base_schedule(RouteB), base_schedule(RouteB)),
                         Route("R2", short, base_schedule(short), base_schedule(short))>>
    /\ fleet = <<new_bus(shop[2], 1, "1")>>
    /\ money = 2500000 * 100 - shop[2][5] - 500 * 100 * 3 - 500 * 100 * 2
    /\ reputation = 50 * 2
    /\ day = 1
    /\ next_bus_id = 2
    /\ use_running_boards = TRUE
    /\ fuel_price = 1600
    /\ boards_folder \in BoardFolders
    /\ routes_created = 2
    /\ days_run = 0
    /\ summary = NoSummary

SpecBoards == InitBoards /\ [][NextDry]_vars

-----------------------------------------------------------------------------
(* Day after day in running board mode: the company above with one board,   *)
(* B1, given to bus 1, whose trips are all on existing routes of several    *)
(* hours, and the day simulation as the only command.                       *)

StarveDays == 4

\* the minutes from the depot to the stop of R2
StarveWorkloads == {640, 960}

StarvePlans == {<<"R1">>, <<"R2">>, <<"R1", "R2">>, <<"R2", "R1">>, <<"R2", "R2">>}

InitStarve ==
    /\ company_name = "My Bus Company"
    /\ \E w \in StarveWorkloads :
          routes = LET short == <<Stop("Depot", 0), Stop("Stop", w)>>
                   IN  <<Route("R1", RouteB, base_schedule(RouteB), base_schedule(RouteB)),
                         Route("R2", short, base_schedule(short), base_schedule(short))>>
    /\ fleet = <<new_bus(shop[2], 1, "1")>>
    /\ money = 2500000 * 100 - shop[2][5] - 500 * 100 * 3 - 500 * 100 * 2
    /\ reputation = 50 * 2
    /\ day = 1
    /\ next_bus_id = 2
    /\ use_running_boards = TRUE
    /\ fuel_price = 1600
    /\ \E plan \in StarvePlans :
          boards_folder = save_running_board(NoBoards, planned_board("B1", plan, Some(1)))
    /\ routes_created = 2
    /\ days_run = 0
    /\ summary = NoSummary

NextStarve ==
    \E fluctuation \in Fluctuations :
        days_run < StarveDays /\ run_day_simulation(fluctuation)

\* the day simulation keeps being run
SpecStarve == InitStarve /\ [][NextStarve]_vars /\ WF_vars(NextStarve)

-----------------------------------------------------------------------------
(* The fleet alone: a new company that buys buses, renumbers and repaints   *)
(* them.                                                                    *)

FleetChoices == {0, 2, 19, 24}
NewNumbers == {"", "1", "2", "7"}
LiveryChoices == {0, 1, 21}

NextFleet ==
    \/ \E choice \in FleetChoices, number \in EnteredNumbers :
          Len(fleet) < MaxFleet /\ buy_new_bus(choice, number)
    \/ \E bus_id \in BusIds, number \in NewNumbers :
          edit_fleet_number(bus_id, number)
    \/ \E bus_id \in BusIds, choice \in LiveryChoices, confirm \in Confirmations :
          change_bus_livery(bus_id, choice, confirm)

SpecFleet == Init /\ [][NextFleet]_vars

-----------------------------------------------------------------------------
(* A company that has spent nearly all of its starting money: from a new
   company, buy_new_bus of shop item 3 sixteen times and of shop item 14
   twice, each with the fleet number left to auto-assignment, takes
   16 * 135000 + 2 * 138000 = 2436000 of the 2500000 and leaves 64000. *)

PoorFleetSize == 18

poor_fleet ==
    [i \in 1..PoorFleetSize |-> new_bus(shop[IF i <= 16 THEN 3 ELSE 14], i, str(i))]

InitPoor ==
    /\ company_name = "My Bus Company"
    /\ routes = <<>>
    /\ fleet = poor_fleet
    /\ money = 250000000 - 16 * shop[3][5] - 2 * shop[14][5]
    /\ reputation = 50 * 2
    /\ day = 1
    /\ next_bus_id = PoorFleetSize + 1
    /\ use_running_boards = FALSE
    /\ fuel_price = 1600
    /\ boards_folder = NoBoards
    /\ routes_created = 0
    /\ days_run = 0
    /\ summary = NoSummary

\* shop numbers typed by the poor company: cancel, a bus it cannot afford,
\* the two cheapest buses of the shop
PoorChoices == {0, 2, 19, 20}

\* fleet numbers typed by the poor company: auto-assign, one in use, a free one
PoorNumbers == {"", "1", "77"}

NextPoor ==
    \/ \E choice \in PoorChoices, number \in PoorNumbers :
          buy_new_bus(choice, number)
    \/ \E r \in TypedRoutes, confirm \in Confirmations :
          routes_created < MaxRoutes /\ add_route(r[1], r[2], confirm)
    \/ \E bus_id \in BusIds, choice \in LiveryChoices, confirm \in Confirmations :
          change_bus_livery(bus_id, choice, confirm)

SpecPoor == InitPoor /\ [][NextPoor]_vars

\* the poor company also puts bus 1 on a route and runs a day
NextBroke ==
    \/ \E choice \in PoorChoices, number \in PoorNumbers :
          buy_new_bus(choice, number)
    \/ \E r \in TypedRoutes, confirm \in Confirmations :
          routes_created < MaxRoutes /\ add_route(r[1], r[2], confirm)
    \/ \E bus_id \in BusIds, choice \in LiveryChoices, confirm \in Confirmations :
          change_bus_livery(bus_id, choice, confirm)
    \/ \E number \in RouteNumbers :
          assign_bus_to_route(1, number)
    \/ \E fluctuation \in Fluctuations :
          InPlay /\ run_day_simulation(fluctuation)

SpecBroke == InitPoor /\ [][NextBroke]_vars

-----------------------------------------------------------------------------
(* Snapshots: to_dict and from_dict of game.py.  A dict is a function on    *)
(* its keys, and data.get(key, default) looks the key up in its domain.     *)

get(data, key, default) == IF key \in DOMAIN data THEN data[key] ELSE default

\* Stop.to_dict: asdict(self)
Stop_to_dict(stop) ==
    [name |-> stop.name, minutes_from_prev |-> stop.minutes_from_prev]

\* Stop.from_dict: the old format holds kilometres, taken as two minutes each
Stop_from_dict(data) ==
    IF "minutes_from_prev" \in DOMAIN data
    THEN Stop(data["name"], data["minutes_from_prev"])
    ELSE Stop(data["name"], get(data, "distance_from_prev_km", 0) * 2)

\* Route.to_dict
Route_to_dict(route) ==
    [name |-> route.name,
     stops |-> [i \in DOMAIN route.stops |-> Stop_to_dict(route.stops[i])],
     base_schedule_minutes |-> route.base_schedule_minutes,
     current_schedule_minutes |-> route.current_schedule_minutes,
     assigned_bus_id |-> route.assigned_bus_id]

\* Route.from_dict
Route_from_dict(data) ==
    [Route(data["name"],
           [i \in DOMAIN data["stops"] |-> Stop_from_dict(data["stops"][i])],
           data["base_schedule_minutes"], data["current_schedule_minutes"])
        EXCEPT !.assigned_bus_id = get(data, "assigned_bus_id", None)]

\* Bus.to_dict: asdict(self)
Bus_to_dict(bus) ==
    [bus_id |-> bus.bus_id, model |-> bus.model, capacity |-> bus.capacity,
     fuel_capacity |-> bus.fuel_capacity, fuel_level |-> bus.fuel_level,
     fuel_efficiency |-> bus.fuel_efficiency, assigned_route |-> bus.assigned_route,
     health |-> bus.health, purchase_price |-> bus.purchase_price,
     fleet_number |-> bus.fleet_number, dlc_source |-> bus.dlc_source,
     livery |-> bus.livery]

\* Bus.from_dict
Bus_from_dict(data) ==
    [bus_id |-> data["bus_id"], model |-> data["model"], capacity |-> data["capacity"],
     fuel_capacity |-> data["fuel_capacity"], fuel_level |-> data["fuel_level"],
     fuel_efficiency |-> data["fuel_efficiency"],
     assigned_route |-> get(data, "assigned_route", None),
     health |-> get(data, "health", 100),
     purchase_price |-> get(data, "purchase_price", 0),
     fleet_number |-> get(data, "fleet_number", None),
     dlc_source |-> get(data, "dlc_source", None),
     livery |-> get(data, "livery", "Standard")]

\* the company as one value
ManagerState ==
    [company_name |-> company_name, routes |-> routes, fleet |-> fleet,
     money |-> money, reputation |-> reputation, day |-> day,
     next_bus_id |-> next_bus_id, use_running_boards |-> use_running_boards,
     fuel_price |-> fuel_price]

\* ManagerState.to_dict
ManagerState_to_dict(state) ==
    [company_name |-> state.company_name,
     routes |-> [i \in DOMAIN state.routes |-> Route_to_dict(state.routes[i])],
     fleet |-> [i \in DOMAIN state.fleet |-> Bus_to_dict(state.fleet[i])],
     money |-> state.money, reputation |-> state.reputation, day |-> state.day,
     next_bus_id |-> state.next_bus_id,
     use_running_boards |-> state.use_running_boards,
     fuel_price |-> state.fuel_price]

\* ManagerState.from_dict as it was before the assignment mode and the fuel
\* price were added
ManagerState_from_dict_without_mode(data) ==
    [company_name |-> data["company_name"],
     routes |-> [i \in DOMAIN data["routes"] |-> Route_from_dict(data["routes"][i])],
     fleet |-> [i \in DOMAIN data["fleet"] |-> Bus_from_dict(data["fleet"][i])],
     money |-> data["money"], reputation |-> data["reputation"], day |-> data["day"],
     next_bus_id |-> get(data, "next_bus_id", 1),
     use_running_boards |-> FALSE,
     fuel_price |-> 1600]

\* ManagerState.from_dict
ManagerState_from_dict(data) ==
    [company_name |-> data["company_name"],
     routes |-> [i \in DOMAIN data["routes"] |-> Route_from_dict(data["routes"][i])],
     fleet |-> [i \in DOMAIN data["fleet"] |-> Bus_from_dict(data["fleet"][i])],
     money |-> data["money"], reputation |-> data["reputation"], day |-> data["day"],
     next_bus_id |-> get(data, "next_bus_id", 1),
     use_running_boards |-> get(data, "use_running_boards", FALSE),
     fuel_price |-> get(data, "fuel_price", 1600)]

-----------------------------------------------------------------------------
(* Properties *)

\* C1: the company reputation always lies in [0, 100], whatever the sum of the
\* day's reputation changes was.
C1_ReputationInRange == 0 <= reputation /\ reputation <= 100 * 2

\* the established company (reputation 100) had a day with a positive sum
C1_Witness ==
    /\ summary.mode # "none" /\ summary.reputation_change > 0
    /\ day = 27 /\ reputation = 100 * 2

\* the routes that carry bus b
OnRoutes(rs, b) == {i \in DOMAIN rs : rs[i].assigned_bus_id = Some(b)}

\* C2: every bus id is the assigned_bus_id of at most one route, and a bus that
\* assign_bus_to_route puts on route n is afterwards on route n and no other.
C2_StaticExclusive ==
    [][/\ \A b \in BusIds : Cardinality(OnRoutes(routes', b)) <= 1
       /\ \A b \in BusIds, n \in RouteNumbers :
             (/\ ~use_running_boards
              /\ \E j \in DOMAIN fleet : fleet[j].bus_id = b
              /\ 1 <= n /\ n <= Len(routes)
              /\ assign_bus_to_route(b, n))
             => OnRoutes(routes', b) = {n}]_vars

\* bus 1 of the established company, which was on R1, is on R2 and R1 is free
C2_Witness ==
    /\ day = 26 /\ Len(routes) = 2
    /\ routes[1].assigned_bus_id = None
    /\ routes[2].assigned_bus_id = Some(1)

\* C3: change_route_schedule leaves current_schedule_minutes as it was exactly
\* when new_time < base_schedule_minutes // 2 and otherwise sets it to new_time.
C3_ScheduleTest ==
    [][\A n \in RouteNumbers, t \in NewTimes :
          (1 <= n /\ n <= Len(routes) /\ change_route_schedule(n, t))
          => /\ Len(routes') = Len(routes)
             /\ routes'[n].current_schedule_minutes =
                   IF t < routes[n].base_schedule_minutes \div 2
                   THEN routes[n].current_schedule_minutes
                   ELSE t]_vars

\* a new time of exactly half an even base was accepted
C3_Witness ==
    \E i \in DOMAIN routes :
        /\ routes[i].base_schedule_minutes = 2 * 768
        /\ routes[i].current_schedule_minutes = 768

\* C4, as stated: 2 * current_schedule_minutes >= base_schedule_minutes for
\* every route, odd bases included.
C4_TwiceCurrentAtLeastBase ==
    \A i \in DOMAIN routes :
        2 * routes[i].current_schedule_minutes >= routes[i].base_schedule_minutes

\* C4, amended: every route's current schedule is at least its base schedule
\* halved and rounded down (base_schedule_minutes // 2).
C4_CurrentAtLeastHalfRoundedDown ==
    \A i \in DOMAIN routes :
        routes[i].current_schedule_minutes >= routes[i].base_schedule_minutes \div 2

\* a route with an odd base runs at the rounded-down half
C4_Witness ==
    \E i \in DOMAIN routes :
        /\ routes[i].base_schedule_minutes % 2 = 1
        /\ routes[i].current_schedule_minutes = routes[i].base_schedule_minutes \div 2

\* C5: every bus has 0 <= fuel_level <= fuel_capacity.
C5_FuelInTank ==
    \A i \in DOMAIN fleet :
        0 <= fleet[i].fuel_level /\ fleet[i].fuel_level <= fleet[i].fuel_capacity

\* bus 1 of the established company, 70 litres in the tank, ran the 96 litre
\* route R2 and has an empty tank
C5_Witness ==
    /\ day = 27 /\ summary.mode = "static"
    /\ \E i \in DOMAIN routes :
          /\ routes[i].name = "R2" /\ routes[i].assigned_bus_id = Some(1)
    /\ fleet[1].fuel_level = 0

\* C6: from 1.60, after any number of update_fuel_price calls, the fuel price
\* lies in [1.25, 2.00].
C6_FuelPriceInBand == 1250 <= fuel_price /\ fuel_price <= 2000

\* the price is at the lower end of the band
C6_Witness == fuel_price = 1250

\* no route was ever created and no bus ever bought
Fresh == routes_created = 0 /\ next_bus_id = 1

\* C7, as stated: a new company has money 2,500,000, reputation 50 and day 1,
\* and after a day simulation with zero routes it has the same money and
\* reputation and day 2.
C7_DayBecomesTwo ==
    Fresh => /\ money = 2500000 * 100 /\ reputation = 50 * 2
             /\ day = IF summary.mode = "none" THEN 1 ELSE 2

\* C7, amended: a new company has money 2,500,000, reputation 50 and day 1,
\* and a day simulation with zero routes is skipped: money, reputation and the
\* day counter, still 1, are unchanged.
C7_NewCompanyDaySkipped ==
    Fresh => /\ money = 2500000 * 100 /\ reputation = 50 * 2 /\ day = 1
             /\ summary.mode \in {"none", "skipped"}

\* the last command of a company without routes or buses was a day simulation
C7_Witness == Fresh /\ routes = <<>> /\ fleet = <<>> /\ summary.mode = "skipped"

\* the precondition of a day simulation fails: static mode without routes or
\* without buses, running board mode without a saved board that has a bus
NothingEligible ==
    IF use_running_boards
    THEN ~\E f \in FileNames :
             boards_folder[f] # None /\ boards_folder[f][1].assigned_bus_id # None
    ELSE routes = <<>> \/ fleet = <<>>

\* C8: a day simulation whose precondition fails changes nothing (money,
\* reputation, day, fuel price, every fuel level), and one whose precondition
\* passes increases the day counter by exactly 1.
C8_SkippedOrDayAdvances ==
    [][(\E fluctuation \in Fluctuations : run_day_simulation(fluctuation))
       => IF NothingEligible
          THEN UNCHANGED <<company_name, routes, fleet, money, reputation, day,
                           next_bus_id, use_running_boards, fuel_price, boards_folder>>
          ELSE day' = day + 1]_vars

\* a day simulation in running board mode was skipped although the company
\* has buses and routes
C8_Witness ==
    /\ summary.mode = "skipped" /\ use_running_boards
    /\ fleet # <<>> /\ routes # <<>>

\* C9: delete_route on a route with a bus leaves the route list unchanged, and
\* a confirmed delete_route on a route without a bus removes exactly that route.
C9_DeleteRoute ==
    [][\A n \in RouteNumbers, c \in Confirmations :
          (1 <= n /\ n <= Len(routes) /\ delete_route(n, c))
          => IF routes[n].assigned_bus_id # None
             THEN routes' = routes
             ELSE c = "y" =>
                    /\ Len(routes') = Len(routes) - 1
                    /\ \A i \in DOMAIN routes' :
                          routes'[i] = IF i < n THEN routes[i] ELSE routes[i + 1]]_vars

\* of two routes created, one was deleted and the one that is left carries a bus
C9_Witness ==
    /\ routes_created = 2 /\ Len(routes) = 1
    /\ routes[1].assigned_bus_id # None

\* C10: assigning bus b to a board while another board already has b succeeds
\* and leaves the other board as it was: both boards then reference b.
C10_NoBoardExclusivity ==
    [][\A b1 \in TypedBoardNames, b2 \in TypedBoardNames, b \in BoardBusIds :
          (/\ b1 # b2 /\ b # 0
           /\ \E j \in DOMAIN fleet : fleet[j].bus_id = b
           /\ boards_folder[safe_name(b1)] # None
           /\ boards_folder[safe_name(b2)] # None
           /\ boards_folder[safe_name(b1)][1].assigned_bus_id = Some(b)
           /\ assign_bus_to_running_board(b2, b))
          => /\ boards_folder'[safe_name(b1)] = boards_folder[safe_name(b1)]
             /\ boards_folder'[safe_name(b2)][1].assigned_bus_id = Some(b)]_vars

\* two saved boards reference the same bus
C10_Witness ==
    /\ \A f \in FileNames : boards_folder[f] # None
    /\ \E b \in BoardBusIds \ {0} :
          \A f \in FileNames : boards_folder[f][1].assigned_bus_id = Some(b)

\* C11: assigning a bus to a route that another bus is on succeeds: the route
\* then has the new bus, no route references the displaced bus, and every other
\* route that did not hold the new bus is unchanged.
C11_Displace ==
    [][\A b \in BusIds, d \in BusIds, n \in RouteNumbers :
          (/\ ~use_running_boards
           /\ \E j \in DOMAIN fleet : fleet[j].bus_id = b
           /\ 1 <= n /\ n <= Len(routes)
           /\ d # b /\ routes[n].assigned_bus_id = Some(d)
           /\ assign_bus_to_route(b, n))
          => /\ Len(routes') = Len(routes)
             /\ routes'[n].assigned_bus_id = Some(b)
             /\ OnRoutes(routes', d) = {}
             /\ \A i \in DOMAIN routes :
                   (i # n /\ routes[i].assigned_bus_id # Some(b))
                   => routes'[i] = routes[i]]_vars

\* bus 1 was displaced: it was put on a route and is on no route now, while
\* each of the two routes has its own state and one of them carries bus 2
C11_Witness ==
    /\ Len(fleet) = 2 /\ Len(routes) = 2
    /\ fleet[1].assigned_route # None
    /\ OnRoutes(routes, 1) = {}
    /\ \E i \in DOMAIN routes :
          /\ routes[i].assigned_bus_id = Some(2)
          /\ fleet[1].assigned_route = Some(routes[i].name)

\* the routes that bus 1 serves
Served == {i \in DOMAIN routes : routes[i].assigned_bus_id = Some(1)}

\* floor(10 * W) for a distance W held in quarters of a kilometre, and
\* floor(1.5 * W) for a travel time W in minutes
Demand(i) ==
    IF Legacy
    THEN (10 * routes[i].stops[2].distance_from_prev_km) \div 4
    ELSE (3 * routes[i].stops[2].minutes_from_prev) \div 2

\* C12: the passenger count of a serviced route or trip is min(C, x) for an
\* integer x in [max(0, k - 5), k + 5], with k = floor(10 * W) in the distance
\* variant and floor(1.5 * W) in the duration variant, and the revenue is
\* 2.50 times that count; a day without a serviced route has no revenue.
C12_Passengers ==
    summary.mode \in {"static", "boards", "legacy"} =>
        IF Served = {}
        THEN summary.total_earnings = 0
        ELSE \A i \in Served :
                \E x \in Max(0, Demand(i) - 5)..(Demand(i) + 5) :
                    /\ summary.total_earnings = 250 * Min(fleet[1].capacity, x)
                    /\ 0 <= Min(fleet[1].capacity, x)
                    /\ Min(fleet[1].capacity, x) <= fleet[1].capacity

\* the bus of capacity 50 served the route of 10 km and carried 50 passengers
C12_Witness ==
    /\ Legacy /\ summary.mode = "legacy"
    /\ fleet[1].capacity = 50
    /\ \E i \in Served : routes[i].stops[2].distance_from_prev_km = 4 * 10
    /\ summary.total_earnings = 250 * 50

\* C13: ManagerState.from_dict(state.to_dict()) equals the state in every
\* field: company name, money, reputation, day, next_bus_id, assignment mode,
\* fuel price, every bus and every route with its stops in order.
C13_RoundTrip ==
    LET loaded == ManagerState_from_dict(ManagerState_to_dict(ManagerState))
    IN  /\ loaded = ManagerState
        /\ loaded.fleet = fleet /\ loaded.routes = routes
        /\ loaded.use_running_boards = use_running_boards
        /\ loaded.fuel_price = fuel_price

\* a company in running board mode after a day, no field at its default:
\* two routes, one rescheduled and one with a bus, a used tank, a moved price
C13_Witness ==
    /\ use_running_boards /\ fuel_price # 1600 /\ day > 1 /\ next_bus_id = 3
    /\ Len(routes) = 2 /\ Len(fleet) = 2
    /\ \E i \in DOMAIN routes : routes[i].assigned_bus_id # None
    /\ \E i \in DOMAIN routes :
          routes[i].current_schedule_minutes # routes[i].base_schedule_minutes
    /\ \E i \in DOMAIN fleet :
          /\ fleet[i].fuel_level < fleet[i].fuel_capacity
          /\ fleet[i].assigned_route # None
    /\ summary.mode = "boards"

\* C14: the bus ids of the fleet are pairwise distinct, the first bus bought
\* has id 1, a later purchase gets an id greater than every earlier one, every
\* id is below next_bus_id, and a purchase that is cancelled or rejected takes
\* no id: next_bus_id grows exactly when the fleet does.
C14_BusIds ==
    [][/\ \A i \in DOMAIN fleet', j \in DOMAIN fleet' :
             i < j => fleet'[i].bus_id < fleet'[j].bus_id
       /\ \A i \in DOMAIN fleet' : fleet'[i].bus_id < next_bus_id'
       /\ fleet' # <<>> => fleet'[1].bus_id = 1
       /\ \A choice \in FleetChoices, number \in EnteredNumbers :
             buy_new_bus(choice, number)
             => IF fleet' = fleet
                THEN next_bus_id' = next_bus_id
                ELSE /\ Len(fleet') = Len(fleet) + 1
                     /\ fleet'[Len(fleet')].bus_id = next_bus_id
                     /\ next_bus_id' = next_bus_id + 1]_vars

\* a second bus was bought after the fleet number 1 was typed for it, refused,
\* and left to auto-assignment
C14_Witness ==
    /\ Len(fleet) = 2 /\ next_bus_id = 3
    /\ fleet[1].bus_id = 1 /\ fleet[1].fleet_number = Some("1")
    /\ fleet[2].bus_id = 2 /\ fleet[2].fleet_number = Some("2")

\* C15: no two buses have the same fleet number, and buy_new_bus or
\* edit_fleet_number with a number that another bus holds leaves the fleet
\* unchanged.
C15_FleetNumbers ==
    [][/\ \A i \in DOMAIN fleet', j \in DOMAIN fleet' :
             i # j => fleet'[i].fleet_number # fleet'[j].fleet_number
       /\ \A choice \in FleetChoices, number \in EnteredNumbers :
             (/\ \E i \in DOMAIN fleet : fleet[i].fleet_number = Some(number)
              /\ buy_new_bus(choice, number))
             => fleet' = fleet
       /\ \A bus_id \in BusIds, number \in NewNumbers :
             (/\ \E i \in DOMAIN fleet :
                    fleet[i].fleet_number = Some(number) /\ fleet[i].bus_id # bus_id
              /\ edit_fleet_number(bus_id, number))
             => fleet' = fleet]_vars

\* bus 1 was renumbered 7 and the number 1 it gave up went to bus 2
C15_Witness ==
    /\ Len(fleet) = 2
    /\ fleet[1].fleet_number = Some("7")
    /\ fleet[2].fleet_number = Some("1")

\* C16: route names are a unique key within a company: after any sequence of
\* add_route and delete_route, no two routes of the list have the same name.
C16_UniqueRouteNames ==
    \A i \in DOMAIN routes, j \in DOMAIN routes :
        i # j => routes[i].name # routes[j].name

\* C17: a command rejected for an invariant violation mutates nothing:
\* buy_new_bus with money below the price or with a fleet number already in
\* use leaves money, fleet and next_bus_id unchanged; add_route with money
\* below 500 per stop leaves money and routes unchanged; change_bus_livery
\* with money below 500 leaves money and the livery of the bus unchanged.
C17_RejectedMutatesNothing ==
    [][/\ \A choice \in 1..Len(shop), number \in PoorNumbers :
             (/\ \/ money < shop[choice][5]
                 \/ \E i \in DOMAIN fleet : fleet[i].fleet_number = Some(number)
              /\ buy_new_bus(choice, number))
             => UNCHANGED <<money, fleet, next_bus_id, state_vars>>
       /\ \A r \in TypedRoutes, confirm \in Confirmations :
             (/\ money < 500 * 100 * Len(r[2])
              /\ add_route(r[1], r[2], confirm))
             => UNCHANGED <<money, routes, state_vars>>
       /\ \A bus_id \in BusIds, choice \in LiveryChoices, confirm \in Confirmations :
             (/\ money < 500 * 100
              /\ change_bus_livery(bus_id, choice, confirm))
             => UNCHANGED <<money, fleet, state_vars>>]_vars

\* the last 500 went on repainting bus 1: the company can pay neither for the
\* cheapest bus, nor for a two-stop route, nor for repainting bus 2, and the
\* fleet number 1 is held
C17_Witness ==
    /\ money = 0
    /\ Len(fleet) = PoorFleetSize + 1
    /\ Len(routes) = 1
    /\ fleet[1].livery # fleet[2].livery
    /\ fleet[2].livery = fleet[3].livery
    /\ fleet[1].fleet_number = Some("1")

\* the routes without a bus of the fleet
Unserved == {i \in DOMAIN routes : routes[i].assigned_bus_id # Some(1)}

\* C18: static-mode settlement: for a day that runs, with E the revenue of the
\* serviced routes, F their fuel costs and k the number of incidents,
\* money_after = money_before + E - F - 200 * k (20 * k in the legacy
\* variant), reputation_after = clamp(reputation_before + the sum of the route
\* deltas, 0, 100), and day_after = day_before + 1.  Here the route deltas are
\* -5 for a route without a bus, and for a serviced route on its base schedule
\* +1 for punctuality and +1 without or -3 with an incident; F is the price of
\* the fuel that left the tank of bus 1.
C18_StaticSettlement ==
    [][(summary'.mode \in {"static", "legacy"} /\ days_run' = days_run + 1)
       => LET E == summary'.total_earnings
              F == summary'.total_fuel_cost
              k == summary'.incidents
              delta == summary'.reputation_change
              burnt == fleet[1].fuel_level - fleet'[1].fuel_level
          IN  /\ money' = money + E - F - (IF Legacy THEN 20 ELSE 200) * 100 * k
              /\ reputation' = Max(0, Min(100 * 2, reputation + delta))
              /\ day' = day + 1
              /\ k \in 0..Cardinality(Served)
              /\ delta = 2 * (2 * Cardinality(Served) - 4 * k - 5 * Cardinality(Unserved))
              /\ F = (burnt * (IF Legacy THEN 1600 ELSE fuel_price)) \div 10000
              /\ Served = {} => E = 0 /\ burnt = 0]_vars

\* the established company of game.py after a day with an incident on its route
C18_Witness ==
    /\ summary.mode = "static" /\ ~Legacy
    /\ summary.incidents = 1
    /\ summary.total_earnings = 250 * 40
    /\ summary.total_fuel_cost = 558
    /\ day = 27
    /\ reputation = 100 * 2 - 2 * 2
    /\ money = Established.money + 250 * 40 - 558 - 200 * 100

\* C19: within one simulated day of game.py, static or with running boards,
\* the fuel price is advanced exactly once, and the fuel cost of the day is the
\* fuel that left the tank at the price that held before the advance; a day
\* that does not run leaves the price alone.
C19_FuelPriceOncePerDay ==
    [][~Legacy
       => /\ summary'.mode \in {"static", "boards"}
             => /\ \E fluctuation \in Fluctuations :
                      fuel_price' = Max(1250, Min(2000, fuel_price + fluctuation))
                /\ summary'.total_fuel_cost =
                      ((fleet[1].fuel_level - fleet'[1].fuel_level) * fuel_price) \div 10000
                /\ day' = day + 1
          /\ summary'.mode = "skipped" => fuel_price' = fuel_price /\ fleet' = fleet]_vars

\* a day of running boards: the trip of 48 minutes burnt 3.6 litres, charged at
\* the 1.60 of the morning, and the price went up to 1.65 afterwards
C19_Witness ==
    /\ summary.mode = "boards"
    /\ summary.total_fuel_cost = 576
    /\ fleet[1].fuel_level = fleet[1].fuel_capacity - 3600
    /\ fuel_price = 1650
    /\ day = 2

\* the fuel one run of route i takes from bus 1, in millilitres
Burn(i) ==
    IF Legacy
    THEN (5 * routes[i].stops[2].distance_from_prev_km * fleet[1].fuel_efficiency) \div 2
    ELSE 3 * routes[i].stops[2].minutes_from_prev * fleet[1].fuel_efficiency

\* C20: in static mode every route whose assigned_bus_id does not resolve to a
\* bus contributes exactly -5 to the reputation delta of the day and nothing to
\* the earnings and the fuel cost, changes no fuel level, and does not stop the
\* other routes, before or after it, from being simulated.
C20_UnservedRoute ==
    [][(summary'.mode \in {"static", "legacy"} /\ Unserved # {})
       => LET burnt == fleet[1].fuel_level - fleet'[1].fuel_level
              rest == summary'.reputation_change + 5 * 2 * Cardinality(Unserved)
          IN  IF Served = {}
              THEN /\ rest = 0
                   /\ summary'.total_earnings = 0
                   /\ summary'.total_fuel_cost = 0
                   /\ summary'.incidents = 0
                   /\ fleet' = fleet
                   /\ money' = money
              ELSE \A i \in Served :
                      /\ rest \in {2 * 2, -(2 * 2)}
                      /\ burnt = Burn(i) /\ burnt > 0
                      /\ summary'.total_fuel_cost > 0
                      /\ summary'.total_earnings \in
                            {250 * Min(fleet[1].capacity, x) :
                                x \in Max(0, Demand(i) - 5)..(Demand(i) + 5)}
                      /\ summary'.total_earnings > 0]_vars

\* route 1 had no bus and route 2, after it, was run by bus 1 without incident
C20_Witness ==
    /\ summary.mode = "static"
    /\ Len(routes) = 2
    /\ Unserved = {1} /\ Served = {2}
    /\ summary.reputation_change = 2 * (-5 + 2)
    /\ summary.total_earnings > 0
    /\ fleet[1].fuel_level = fleet[1].fuel_capacity - 600

\* C21: in static mode the reputation delta of a serviced route is the sum of
\* an incident component (-3 on incident, +1 otherwise) and a schedule
\* component, both always evaluated: the schedule component is +1 whenever
\* current_schedule_minutes >= base_schedule_minutes and -2 or +1 when current
\* < base.  The delta of the route is in {-5, -2, -1, +2}, and in {-2, +2} for
\* a route not tighter than its base; it is -5 or -2 exactly on an incident.
C21_RouteDelta ==
    [][summary'.mode \in {"static", "legacy"}
       => \A i \in Served :
             LET delta == summary'.reputation_change + 5 * 2 * Cardinality(Unserved)
                 r == routes[i]
             IN  /\ r.current_schedule_minutes >= r.base_schedule_minutes
                       => delta \in {-(2 * 2), 2 * 2}
                 /\ r.current_schedule_minutes < r.base_schedule_minutes
                       => delta \in {-(5 * 2), -(2 * 2), -(1 * 2), 2 * 2}
                 /\ summary'.incidents \in {0, 1}
                 /\ summary'.incidents = 1 <=> delta \in {-(5 * 2), -(2 * 2)}]_vars

\* a route run on a tighter schedule than its base was hit by an incident and
\* by the delay on the same day: -5
C21_Witness ==
    /\ summary.mode = "static"
    /\ Len(routes) = 1 /\ Served = {1}
    /\ routes[1].current_schedule_minutes < routes[1].base_schedule_minutes
    /\ summary.incidents = 1
    /\ summary.reputation_change = -(5 * 2)

\* C22: in static mode a route with an assigned bus is simulated whatever the
\* fuel level of the bus, level 0 included: passengers and revenue are
\* produced, the level is floored at 0, and the fuel cost charged is the full
\* computed consumption times the current fuel price, not the amount that
\* left the tank.
C22_SimulatedWithoutFuel ==
    [][\A i \in Served :
          LET minutes == total_time(routes[i].stops)
              computed == 3 * minutes * fleet[1].fuel_efficiency
              k == (3 * minutes) \div 2
          IN  ~use_running_boards
              => /\ summary'.mode = "static"
                 /\ day' = day + 1
                 /\ fleet'[1].fuel_level = Max(0, fleet[1].fuel_level - computed)
                 /\ summary'.total_fuel_cost = (computed * fuel_price) \div 10000
                 /\ summary'.total_earnings \in
                       {250 * Min(fleet[1].capacity, x) : x \in Max(0, k - 5)..(k + 5)}
                 /\ k > 5 => summary'.total_earnings > 0]_vars

\* the bus with an empty tank ran the route of 1280 minutes: 40 passengers,
\* and 96 litres charged at 1.60 although none left the tank
C22_Witness ==
    /\ summary.mode = "static"
    /\ day = 4
    /\ Served = {1}
    /\ fleet[1].fuel_level = 0
    /\ summary.total_earnings = 250 * 40
    /\ summary.total_fuel_cost = 15360

\* the trips bus 1 is asked to run today: those of the saved boards that name
\* bus 1, board after board in the order of the sorted board names
TripsOf(name) ==
    LET saved == boards_folder[safe_name(name)]
    IN  IF saved # None /\ saved[1].assigned_bus_id = Some(1) THEN saved[1].trips ELSE <<>>

DayTrips == TripsOf(BoardNames[1]) \o TripsOf(BoardNames[2])

\* the minutes of one run of the route of that name, -1 without such a route
RouteMinutes(name) ==
    IF \E i \in DOMAIN routes : routes[i].name = name
    THEN LET stops == routes[CHOOSE i \in DOMAIN routes : routes[i].name = name].stops
         IN  SumSeq([j \in 1..(Len(stops) - 1) |-> stops[j + 1].minutes_from_prev])
    ELSE -1

\* what the trips must come to, told from the rules of the dynamic mode: a
\* trip without a route is missing, a trip whose estimate (0.5 km a minute
\* times the efficiency) exceeds the level is cancelled, any other trip is
\* completed and takes 0.6 of its estimate from the tank
RECURSIVE Walk(_, _)
Walk(trips, st) ==
    IF trips = <<>> THEN st
    ELSE LET minutes == RouteMinutes(Head(trips).route_name)
             eff == fleet[1].fuel_efficiency
         IN  IF minutes < 0
             THEN Walk(Tail(trips), [st EXCEPT !.missing = @ + 1])
             ELSE IF st.level < 5 * minutes * eff
             THEN Walk(Tail(trips), [st EXCEPT !.cancelled = @ + 1])
             ELSE Walk(Tail(trips),
                       [st EXCEPT !.completed = @ + 1,
                                  !.level = @ - 3 * minutes * eff,
                                  !.cost = @ + (3 * minutes * eff * fuel_price) \div 10000,
                                  !.seats = @ + Min(fleet[1].capacity,
                                                    (3 * minutes) \div 2 + 5)])

Expected ==
    Walk(DayTrips, [missing |-> 0, cancelled |-> 0, completed |-> 0,
                    level |-> fleet[1].fuel_level, cost |-> 0, seats |-> 0])

\* C23: in dynamic mode a trip whose route_name matches no route of the live
\* route list contributes exactly -2 reputation, no earnings, no fuel cost and
\* no fuel consumption, and the other trips of its board are still processed
\* in order: what is left of the day's figures once the -2 of each such trip
\* is taken out is what the other trips come to by themselves.
C23_TripWithoutRoute ==
    [][(summary'.mode = "boards" /\ Expected.missing > 0)
       => LET rest == summary'.reputation_change + 2 * 2 * Expected.missing
              n == Expected.completed
          IN  /\ \E k \in 0..n : rest = (n - k) - 2 * k - 5 * 2 * Expected.cancelled
              /\ fleet'[1].fuel_level = Expected.level
              /\ summary'.total_fuel_cost = Expected.cost
              /\ summary'.total_earnings <= 250 * Expected.seats
              /\ n = 0 => /\ summary'.total_earnings = 0
                          /\ fleet' = fleet
                          /\ money' = money]_vars

\* board B1 with trips on R1, on the missing R9 and on R2 of 48 minutes: the
\* first and the third ran without incident, the second cost 2 points
C23_Witness ==
    /\ summary.mode = "boards"
    /\ Len(DayTrips) = 3
    /\ DayTrips[2].route_name = "R9" /\ DayTrips[3].route_name = "R2"
    /\ summary.reputation_change = 1 + 1 - 2 * 2
    /\ fleet[1].fuel_level = fleet[1].fuel_capacity - 96000 - 3600
    /\ summary.total_earnings > 250 * 40

\* C24: in dynamic mode a trip is cancelled exactly when the current fuel
\* level of the bus, as the earlier trips of the day on any board left it, is
\* below the fuel estimate of the trip; a cancelled trip contributes -5
\* reputation, leaves the fuel level unchanged and records no earnings or fuel
\* cost, and the later trips of the board are still evaluated, each against
\* the level at its turn.
C24_CancelledTrip ==
    [][summary'.mode = "boards"
       => LET n == Expected.completed
              k == summary'.incidents
              others == (n - k) - 2 * k - 2 * 2 * Expected.missing
          IN  /\ k \in 0..n
              /\ summary'.reputation_change - others = -(5 * 2 * Expected.cancelled)
              /\ fleet'[1].fuel_level = Expected.level
              /\ Expected.level >= 0
              /\ summary'.total_fuel_cost = Expected.cost
              /\ summary'.total_earnings \in {250 * p : p \in 0..Expected.seats}]_vars

\* trips on R1, R1 and R2 of 24 minutes: the first left 64 litres, the second
\* needed 160 and was cancelled, the third needed 3 and ran
C24_Witness ==
    /\ summary.mode = "boards"
    /\ Len(DayTrips) = 3
    /\ DayTrips[1].route_name = "R1" /\ DayTrips[2].route_name = "R1"
    /\ DayTrips[3].route_name = "R2"
    /\ routes[2].stops[2].minutes_from_prev = 24
    /\ fleet[1].fuel_level = 64000 - 1800
    /\ summary.reputation_change = 1 - 5 * 2 + 1
    /\ summary.total_fuel_cost = 15360 + 288

\* C25: in dynamic mode each completed trip contributes reputation -1 on an
\* incident and +0.5 otherwise, and an incident never touches money: for a
\* day that runs, money_after - money_before is exactly the total earnings
\* minus the total fuel cost of the completed trips.
C25_DynamicSettlement ==
    [][summary'.mode = "boards"
       => /\ money' - money = summary'.total_earnings - summary'.total_fuel_cost
          /\ summary'.incidents \in 0..Expected.completed
          /\ summary'.reputation_change
                + 2 * 2 * Expected.missing + 5 * 2 * Expected.cancelled
                = -(1 * 2) * summary'.incidents
                  + 1 * (Expected.completed - summary'.incidents)
          /\ reputation' = Max(0, Min(100 * 2, reputation + summary'.reputation_change))
          /\ day' = day + 1]_vars

\* two trips on R2 of 48 minutes, both with an incident: -2 reputation, and
\* money up by the fares less the fuel
C25_Witness ==
    /\ summary.mode = "boards"
    /\ Len(DayTrips) = 2
    /\ summary.incidents = 2
    /\ summary.reputation_change = -(2 * 2)
    /\ summary.total_fuel_cost = 2 * 576
    /\ summary.total_earnings = 2 * 250 * 40
    /\ money = 240250000 + 2 * 250 * 40 - 2 * 576

\* the saved boards that name a bus the fleet does not have
Orphans ==
    {f \in FileNames :
        /\ boards_folder[f] # None
        /\ boards_folder[f][1].assigned_bus_id # None
        /\ \A i \in DOMAIN fleet :
              boards_folder[f][1].assigned_bus_id # Some(fleet[i].bus_id)}

\* C26: referential gaps in bus ids are tolerated at simulation time with a
\* penalty and rejected at assignment time: a route or a running board whose
\* assigned bus id does not resolve to a bus of the fleet is skipped by the
\* day simulation and a reputation penalty is applied for it, and an assign
\* operation that names a bus id that does not resolve changes no assignment.
C26_GapsPenalisedAndRejected ==
    [][/\ (summary'.mode = "boards" /\ Orphans # {})
             => /\ fleet'[1].fuel_level = Expected.level
                /\ summary'.reputation_change
                      < (Expected.completed - 3 * summary'.incidents)
                        - 2 * 2 * Expected.missing - 5 * 2 * Expected.cancelled
       /\ (summary'.mode = "static" /\ Unserved # {})
             => summary'.reputation_change
                   <= 2 * 2 * Cardinality(Served) - 5 * 2 * Cardinality(Unserved)
       /\ \A bus_id \in BoardBusIds, number \in RouteNumbers, name \in TypedBoardNames :
             (\A i \in DOMAIN fleet : fleet[i].bus_id # bus_id)
             => /\ assign_bus_to_route(bus_id, number)
                      => routes' = routes /\ fleet' = fleet
                /\ (bus_id # 0 /\ assign_bus_to_running_board(name, bus_id))
                      => boards_folder' = boards_folder]_vars

\* C27: the assigned_route field of a bus agrees with the assignments of the
\* routes in every reachable state: for every bus b and route r,
\* b.assigned_route = r.name if and only if r.assigned_bus_id = b.bus_id, and
\* b.assigned_route is None when no route references b, also after b was
\* displaced from its route by another bus.
C27_AssignedRouteAgrees ==
    \A b \in DOMAIN fleet :
        /\ \A r \in DOMAIN routes :
              fleet[b].assigned_route = Some(routes[r].name)
                 <=> routes[r].assigned_bus_id = Some(fleet[b].bus_id)
        /\ OnRoutes(routes, fleet[b].bus_id) = {} => fleet[b].assigned_route = None

\* the routes that have a bus, in the order of the route list
WithBus(rs) == SelectSeq(rs, LAMBDA r : r.assigned_bus_id # None)

AllCancelled ==
    /\ summary.mode = "boards"
    /\ DayTrips # <<>>
    /\ summary.reputation_change = -(5 * 2) * Len(DayTrips)
    /\ summary.total_earnings = 0
    /\ summary.total_fuel_cost = 0

\* C29: fuel starvation in dynamic mode: no command increases the fuel level
\* of a bus and a completed trip never hits the floor clamp, so for a board
\* with a bus of positive fuel efficiency and trips over existing routes of
\* workload W > 0, if day simulations keep being run, eventually every
\* simulated day ends with those trips cancelled for insufficient fuel.
C29_FuelStarvation == <>[]AllCancelled

\* the bus ran R2 of 640 minutes on two days, has 64 litres left and has been
\* refused the 80 litres of the estimate on every day since
C29_Witness ==
    /\ AllCancelled
    /\ days_run = StarveDays
    /\ Len(DayTrips) = 1 /\ DayTrips[1].route_name = "R2"
    /\ routes[2].stops[2].minutes_from_prev = 640
    /\ fleet[1].fuel_level = 64000
    /\ reputation <= (50 + 2 * 1 - 2 * 5) * 2

\* C30: purchases never overdraw: immediately after a successful buy_new_bus,
\* add_route or change_bus_livery money >= 0, each having deducted exactly
\* its cost; money becomes negative only through the settlement of a
\* simulated day, and a purchase that costs more than the balance is
\* rejected, also when the balance is negative.
C30_NeverOverdrawn ==
    [][/\ \A choice \in PoorChoices, number \in PoorNumbers :
             buy_new_bus(choice, number)
             => IF fleet' # fleet
                THEN money' = money - shop[choice][5] /\ money' >= 0
                ELSE money' = money
       /\ \A r \in TypedRoutes, confirm \in Confirmations :
             add_route(r[1], r[2], confirm)
             => IF routes' # routes
                THEN money' = money - 500 * 100 * Len(r[2]) /\ money' >= 0
                ELSE money' = money
       /\ \A bus_id \in BusIds, choice \in LiveryChoices, confirm \in Confirmations :
             change_bus_livery(bus_id, choice, confirm)
             => IF fleet' # fleet
                THEN money' = money - 500 * 100 /\ money' >= 0
                ELSE money' = money
       /\ (money' < 0 /\ money' < money) => summary'.mode \in {"static", "boards"}
       /\ money < 0 => /\ Len(fleet') = Len(fleet)
                       /\ Len(routes') = Len(routes)
                       /\ \A b \in DOMAIN fleet : fleet'[b].livery = fleet[b].livery]_vars

\* the company spent its last pound on a livery, an incident on the day that
\* followed took it below zero, and the command typed after that changed
\* nothing
C30_Witness ==
    /\ money < 0
    /\ days_run = 1
    /\ summary = NoSummary
    /\ Len(fleet) = PoorFleetSize + 1

====
